---------------------------- MODULE Spec2Model ----------------------------
(***************************************************************************)
(* Lexical enrichment and indexing engine of the JLPT content pipeline.    *)
(*                                                                         *)
(* Strings are sequences: a Japanese word is a sequence of Unicode code    *)
(* points, an English tag or gloss is a sequence of one-letter strings.    *)
(* An optional value (null in the source) is the empty sequence, a present *)
(* value v is <<v>>.                                                       *)
(***************************************************************************)
EXTENDS Integers, Sequences, FiniteSets, TLC

VARIABLES
    pc,             \* "index": buildJmdict is running; "main": the batch loop; "done"
    entries,        \* jmdict.entries: seq id -> entry
    wordLookup,     \* jmdict.wordLookup: spelling -> sequence of seq ids
    readingLookup,  \* jmdict.readingLookup: reading -> sequence of seq ids
    kanjiCharIndex, \* jmdict.kanjiCharIndex: character -> seq ids, insertion order
    wordOrder,      \* the keys of jmdict.wordLookup in property (insertion) order
    rawCount,       \* raw records buildJmdict has consumed; the next ent_seq is rawCount + 1
    enWords,        \* the JLPT word list loaded by loadJlptWords
    wi,             \* number of target words the batch loop has consumed
    okCount,        \* main's counter "ok"
    skipCount,      \* main's counter "skip"
    out,            \* the records written so far, in loop order
    senseIn,        \* sense list under construction for the sense-filter runs
    senseLevel,     \* level handed to filterSenses in the sense-filter runs
    senseOut,       \* <<result>> once filterSenses has run, <<>> before
    pitchDict,      \* pitch.js pitchDict: <<>> for null, <<map>> once loaded
    exIdx,          \* the examples index (a Map): <<>> for null, <<map>> once built
    pitchSource,    \* pitch-accents.json as read: <<>> when the file is missing
    pitchLog,       \* the lookupPitch calls made so far: reading and result
    corpus,         \* the sentence pairs handed to buildExamplesIndex
    exTargets,      \* the target words handed to buildExamplesIndex
    rawExamples,    \* candidate list under construction for the filterExamples runs
    exLevel,        \* level handed to filterExamples
    exOut,          \* <<result>> once filterExamples has run, <<>> before
    conjLog,        \* the conjugate calls made so far: arguments and result
    relLog          \* the related-word and idiom runs made so far: target and result

vars == <<pc, entries, wordLookup, readingLookup, kanjiCharIndex, wordOrder, rawCount, enWords,
          wi, okCount, skipCount, out, senseIn, senseLevel, senseOut,
          pitchDict, exIdx, pitchSource, pitchLog, corpus, exTargets,
          rawExamples, exLevel, exOut, conjLog, relLog>>

indexVars == <<entries, wordLookup, readingLookup, kanjiCharIndex, wordOrder, rawCount>>
mainVars  == <<wi, okCount, skipCount, out>>
senseVars == <<senseIn, senseLevel, senseOut>>
loadedVars == <<pitchDict, exIdx>>
pitchVars == <<pitchSource, pitchLog>>
corpusVars == <<corpus, exTargets>>
filterVars == <<rawExamples, exLevel, exOut>>

\* what the batch run never touches
unitVars  == <<senseVars, pitchVars, corpusVars, filterVars, conjLog, relLog>>

\* what the runs of a single function never touch
batchVars == <<indexVars, enWords, mainVars>>

-----------------------------------------------------------------------------
(* Bounds of the model.                                                    *)

MaxRecords == 2     \* raw dictionary records fed to buildJmdict
MaxSenseList == 13  \* longest sense list handed to filterSenses

-----------------------------------------------------------------------------
(* Generic helpers for JavaScript values.                                  *)

None == <<>>
Some(v) == <<v>>

\* Array.prototype.slice(0, n)
Slice0(s, n) == SubSeq(s, 1, IF Len(s) < n THEN Len(s) ELSE n)

\* Array.prototype.flat() of a sequence of sequences
RECURSIVE Flat(_)
Flat(ss) == IF ss = <<>> THEN <<>> ELSE Head(ss) \o Flat(Tail(ss))

Range(s) == {s[i] : i \in 1..Len(s)}

\* String.prototype.includes, on sequences of characters
Includes(hay, needle) ==
    \E i \in 0..(Len(hay) - Len(needle)) :
        SubSeq(hay, i + 1, i + Len(needle)) = needle

\* String.prototype.endsWith
EndsWith(str, suffix) ==
    /\ Len(str) >= Len(suffix)
    /\ SubSeq(str, Len(str) - Len(suffix) + 1, Len(str)) = suffix

\* An insertion-ordered Set.add, the set kept as a duplicate-free sequence
SetAdd(s, x) == IF x \in Range(s) THEN s ELSE Append(s, x)

\* new Set(array), as a duplicate-free sequence in first-occurrence order
SetOf(s) ==
    LET first == SelectSeq([i \in 1..Len(s) |-> i],
                           LAMBDA i : \A j \in 1..(i - 1) : s[j] # s[i])
    IN  [k \in 1..Len(first) |-> s[first[k]]]

\* obj[key] of a plain object used as a map: <<>> stands for undefined
Get(map, key) == IF key \in DOMAIN map THEN map[key] ELSE <<>>

\* (obj[key] ??= []).push(x)
Push(map, key, x) ==
    IF key \in DOMAIN map THEN [map EXCEPT ![key] = Append(@, x)]
    ELSE map @@ (key :> <<x>>)

\* (obj[key] ??= new Set()).add(x)
AddToSet(map, key, x) ==
    IF key \in DOMAIN map THEN [map EXCEPT ![key] = SetAdd(@, x)]
    ELSE map @@ (key :> <<x>>)

-----------------------------------------------------------------------------
(* Characters. Japanese characters are code points.                       *)

Ch == [te    |-> 25163,   \* U+624B 手  grade 1
       kami  |-> 32025,   \* U+7D19 紙  grade 2
       ue    |-> 19978,   \* U+4E0A 上  grade 1
       utsu  |-> 39729,   \* U+9B31 鬱  grade 8
       uso   |-> 22040,   \* U+5618 嘘  in the kanji table, no grade, no level
       tou   |-> 40856,   \* U+9F98 龘  not in the kanji table
       extB  |-> 131083,  \* U+2000B, CJK extension B (a surrogate pair in UTF-16)
       ai    |-> 24859,   \* U+611B 愛  grade 4
       yume  |-> 22818,   \* U+5922 夢  grade 5
       shika |-> 134047,  \* U+20B9F 𠮟, CJK extension B, grade 8
       kTe   |-> 12390,   \* て
       kGa   |-> 12364,   \* が
       kMi   |-> 12415]   \* み

\* build-indices.js isKanji: BMP ideographs, extension A and extension B
isKanjiIndex(ch) ==
    \/ (ch >= 19968 /\ ch <= 40959)
    \/ (ch >= 13312 /\ ch <= 19903)
    \/ (ch >= 131072 /\ ch <= 173791)

\* build.js isKanji: BMP ideographs and extension A only
isKanji(ch) ==
    \/ (ch >= 19968 /\ ch <= 40959)
    \/ (ch >= 13312 /\ ch <= 19903)

\* String.prototype.length counts UTF-16 code units
RECURSIVE StrLength(_)
StrLength(w) ==
    IF w = <<>> THEN 0
    ELSE (IF Head(w) > 65535 THEN 2 ELSE 1) + StrLength(Tail(w))

\* [...w].filter(isKanji).length
kanjiCount(w) == Cardinality({i \in 1..Len(w) : isKanji(w[i])})

-----------------------------------------------------------------------------
(* English text: tags and glosses are sequences of one-letter strings.     *)

UpperLetters == <<"A","B","C","D","E","F","G","H","I","J","K","L","M","N","O","P","Q","R","S","T","U","V","W","X","Y","Z">>
LowerLetters == <<"a","b","c","d","e","f","g","h","i","j","k","l","m","n","o","p","q","r","s","t","u","v","w","x","y","z">>
DigitsUnderscore == <<"0","1","2","3","4","5","6","7","8","9","_">>

\* the lower-case letter of every upper-case letter
LowerOf ==
    [c \in Range(UpperLetters) |->
        LowerLetters[CHOOSE i \in 1..Len(UpperLetters) : UpperLetters[i] = c]]

LowerChar(c) == IF c \in DOMAIN LowerOf THEN LowerOf[c] ELSE c

\* String.prototype.toLowerCase
toLowerCase(s) == [i \in 1..Len(s) |-> LowerChar(s[i])]

\* the regular-expression class \w
IsWordChar(c) ==
    c \in Range(UpperLetters) \cup Range(LowerLetters) \cup Range(DigitsUnderscore)

\* the regular-expression assertion \b between positions p and p + 1 of text
WordBoundary(text, p) ==
    LET before == p >= 1 /\ p <= Len(text) /\ IsWordChar(text[p])
        after  == p + 1 >= 1 /\ p + 1 <= Len(text) /\ IsWordChar(text[p + 1])
    IN  before # after

\* Array.prototype.join(' ')
RECURSIVE JoinSpace(_)
JoinSpace(ss) ==
    IF ss = <<>> THEN <<>>
    ELSE IF Len(ss) = 1 THEN ss[1]
    ELSE ss[1] \o <<" ">> \o JoinSpace(Tail(ss))

\* A regular expression of filters.js: the literal alternatives it matches,
\* whether it is anchored by \b on both sides; all carry the flag i.
Regex(alts, bounded) == [alts |-> alts, bounded |-> bounded]

\* RegExp.prototype.test
RegexTest(re, text) ==
    LET low == toLowerCase(text)
    IN  \E lit \in re.alts :
          \E i \in 0..(Len(low) - Len(lit)) :
              /\ SubSeq(low, i + 1, i + Len(lit)) = lit
              /\ re.bounded => /\ WordBoundary(low, i)
                               /\ WordBoundary(low, i + Len(lit))

-----------------------------------------------------------------------------
(* filters.js                                                              *)

Levels == {"N5", "N4", "N3", "N2", "N1"}

JLPT_RANK == [l \in Levels |-> CASE l = "N5" -> 5 [] l = "N4" -> 4 [] l = "N3" -> 3
                                 [] l = "N2" -> 2 [] l = "N1" -> 1]

\* JLPT_RANK[jlpt] ?? 0, jlpt an optional level
RankOf(jlpt) == IF jlpt # None /\ jlpt[1] \in Levels THEN JLPT_RANK[jlpt[1]] ELSE 0

INAPPROPRIATE_MISC ==
    << <<"v","u","l","g","a","r">>,
       <<"c","r","u","d","e">>,
       <<"o","b","s","c","e","n","e">>,
       <<"d","e","r","o","g","a","t","o","r","y">>,
       <<"a","r","c","h","a","i","c">>,
       <<"o","b","s","o","l","e","t","e">> >>

INAPPROPRIATE_MEANINGS ==
    << Regex({<<"o","r","g","a","s","m">>}, TRUE),
       Regex({<<"s","e","x","u","a","l">>, <<"s","e","x","u","a","l","l","y">>}, TRUE),
       Regex({<<"e","r","o","t","i","c">>}, TRUE),
       Regex({<<"d","r","u","g","-","i","n","d","u","c","e","d">>,
              <<"d","r","u","g"," ","i","n","d","u","c","e","d">>}, FALSE),
       Regex({<<"h","a","l","l","u","c","i","n","a","t","i","o","n">>}, TRUE),
       Regex({<<"g","e","t"," ","p","r","e","g","n","a","n","t">>}, TRUE),
       Regex({<<"i","n","t","e","r","c","o","u","r","s","e">>}, TRUE),
       Regex({<<"c","u","m">>}, TRUE),
       Regex({<<"g","e","t"," ","h","i","g","h">>}, TRUE) >>

\* rule 1 of filterSenses: some misc tag contains a denylist term
HasInappropriateMisc(sense) ==
    \E i \in 1..Len(sense.misc) :
        LET lower == toLowerCase(sense.misc[i])
        IN  \E j \in 1..Len(INAPPROPRIATE_MISC) : Includes(lower, INAPPROPRIATE_MISC[j])

\* rule 2 of filterSenses: the joined glosses match a sensitive-meaning pattern
HasInappropriateMeaning(sense) ==
    \E j \in 1..Len(INAPPROPRIATE_MEANINGS) :
        RegexTest(INAPPROPRIATE_MEANINGS[j], JoinSpace(sense.meanings))

\* the callback with rule 2 applied at every level
SenseKeptRuleTwoAtAll(sense, rank) ==
    ~HasInappropriateMisc(sense) /\ ~HasInappropriateMeaning(sense)

\* the callback of senses.filter in filterSenses
SenseKept(sense, rank) ==
    IF HasInappropriateMisc(sense) THEN FALSE
    ELSE IF rank >= 4 /\ HasInappropriateMeaning(sense) THEN FALSE
    ELSE TRUE

\* maxSenses with the middle tier forgotten
maxSensesNoMidTier(rank) == IF rank >= 4 THEN 5 ELSE 12

maxSenses(rank) == IF rank >= 4 THEN 5 ELSE IF rank = 3 THEN 8 ELSE 12

\* filterSenses keeping the last maxSenses survivors instead of the first
filterSensesKeepLast(senses, jlpt) ==
    LET rank == RankOf(jlpt)
        filtered == SelectSeq(senses, LAMBDA s : SenseKept(s, rank))
        n == IF Len(filtered) < maxSenses(rank) THEN Len(filtered) ELSE maxSenses(rank)
    IN  SubSeq(filtered, Len(filtered) - n + 1, Len(filtered))

filterSenses(senses, jlpt) ==
    LET rank == RankOf(jlpt)
        filtered == SelectSeq(senses, LAMBDA s : SenseKept(s, rank))
    IN  Slice0(filtered, maxSenses(rank))


-----------------------------------------------------------------------------
(* Sense-filter runs: a sense list is put together one sense at a time and *)
(* filterSenses is applied to it once.                                     *)

MaxOddSenses == 1   \* senses of a list that some filter rule can remove

posNoun == <<"n","o","u","n"," ","(","c","o","m","m","o","n",")"," ","(","f","u","t","s","u","u","m","e","i","s","h","i",")">>

Sense(pos, meanings, misc) ==
    [pos |-> pos, meanings |-> meanings, misc |-> misc, field |-> <<>>]

PlainGlosses == << <<"h","a","n","d">>, <<"l","e","t","t","e","r">>, <<"p","a","p","e","r">> >>

\* an unobjectionable sense; consecutive ones differ, so that order is visible
PlainSense(k) == Sense(<<posNoun>>, <<PlainGlosses[(k % 3) + 1]>>, <<>>)

\* removed by rule 1 at every level (the tag is capitalised in the input)
DeniedSense ==
    Sense(<<posNoun>>, <<PlainGlosses[1]>>,
          << <<"O","b","s","o","l","e","t","e"," ","t","e","r","m">> >>)

\* removed by rule 2 at beginner levels: one gloss matches \bintercourse\b
SensitiveSense ==
    Sense(<<posNoun>>,
          << <<"S","e","x","u","a","l"," ","i","n","t","e","r","c","o","u","r","s","e">> >>,
          <<>>)

\* removed by rule 2 at beginner levels: only the joined glosses match \bget high\b
JoinedSensitiveSense ==
    Sense(<<posNoun>>,
          << <<"t","o"," ","g","e","t">>, <<"h","i","g","h"," ","a","n","d"," ","d","r","y">> >>,
          <<>>)

\* kept at every level: "unisexual" has no \b before "sexual"
LookalikeSense ==
    Sense(<<posNoun>>, << <<"u","n","i","s","e","x","u","a","l">> >>,
          << <<"c","o","l","l","o","q","u","i","a","l">> >>)

OddSenses == {DeniedSense, SensitiveSense, JoinedSensitiveSense, LookalikeSense}

OddCount(senses) == Cardinality({i \in 1..Len(senses) : senses[i] \in OddSenses})

\* nothing built, loaded or called yet
BatchAtStart ==
    /\ entries = <<>> /\ wordLookup = <<>> /\ readingLookup = <<>>
    /\ kanjiCharIndex = <<>> /\ wordOrder = <<>> /\ rawCount = 0
    /\ enWords = <<>>
    /\ wi = 0 /\ okCount = 0 /\ skipCount = 0 /\ out = <<>>

NothingLoaded == pitchDict = <<>> /\ exIdx = <<>>

PitchAtStart == pitchSource = <<>> /\ pitchLog = <<>>

CorpusAtStart == corpus = <<>> /\ exTargets = <<>>

FilterAtStart == rawExamples = <<>> /\ exLevel = "N5" /\ exOut = <<>>

InitSenses ==
    /\ pc = "senses"
    /\ BatchAtStart /\ NothingLoaded /\ PitchAtStart /\ CorpusAtStart /\ FilterAtStart
    /\ conjLog = <<>> /\ relLog = <<>>
    /\ senseIn = <<>>
    /\ senseLevel \in Levels
    /\ senseOut = None

AddPlainSense ==
    /\ pc = "senses" /\ senseOut = None
    /\ Len(senseIn) < MaxSenseList
    /\ senseIn' = Append(senseIn, PlainSense(Len(senseIn)))
    /\ UNCHANGED <<pc, batchVars, loadedVars, pitchVars, corpusVars, filterVars, conjLog, relLog,
                   senseLevel, senseOut>>

AddOddSense ==
    /\ pc = "senses" /\ senseOut = None
    /\ Len(senseIn) < MaxSenseList
    /\ OddCount(senseIn) < MaxOddSenses
    /\ \E s \in OddSenses : senseIn' = Append(senseIn, s)
    /\ UNCHANGED <<pc, batchVars, loadedVars, pitchVars, corpusVars, filterVars, conjLog, relLog,
                   senseLevel, senseOut>>

RunFilterSenses ==
    /\ pc = "senses" /\ senseOut = None
    /\ senseOut' = Some(filterSenses(senseIn, Some(senseLevel)))
    /\ UNCHANGED <<pc, batchVars, loadedVars, pitchVars, corpusVars, filterVars, conjLog, relLog,
                   senseIn, senseLevel>>

NextSenses == AddPlainSense \/ AddOddSense \/ RunFilterSenses

SpecSenses == InitSenses /\ [][NextSenses]_vars


-----------------------------------------------------------------------------
(* Claims about the sense filter, checked on the sense-filter runs.        *)

\* the cap the specification states for each level
CapForLevel(l) ==
    CASE l \in {"N5", "N4"} -> 5
      [] l = "N3"           -> 8
      [] l \in {"N2", "N1"} -> 12

\* the positions of the input whose senses no filter rule removes
Survivors == {i \in 1..Len(senseIn) : SenseKept(senseIn[i], JLPT_RANK[senseLevel])}

\* the k-th smallest member of a set of positions
NthOf(S, k) == CHOOSE i \in S : Cardinality({j \in S : j <= i}) = k

RECURSIVE IsSubsequence(_, _)
IsSubsequence(a, b) ==
    IF a = <<>> THEN TRUE
    ELSE IF b = <<>> THEN FALSE
    ELSE IF Head(a) = Head(b) THEN IsSubsequence(Tail(a), Tail(b))
    ELSE IsSubsequence(a, Tail(b))

\* C6: the result of filterSenses is never longer than the cap of the level:
\* 5 for N5 and N4, 8 for N3, 12 for N2 and N1.
C6_SenseCountCap ==
    senseOut # None => Len(senseOut[1]) <= CapForLevel(senseLevel)

\* more senses survive the rules than the cap allows, and the cap cut them
C6_Witness ==
    /\ senseOut # None
    /\ Cardinality(Survivors) > CapForLevel(senseLevel)
    /\ Len(senseOut[1]) = CapForLevel(senseLevel)

\* C7: the result of filterSenses is a subsequence of the input in the input's
\* order, namely the first cap-many senses that the rules keep, and it is
\* empty exactly when the rules removed every input sense.
C7_OrderPreserving ==
    senseOut # None =>
        LET res  == senseOut[1]
            surv == Survivors
            cap  == CapForLevel(senseLevel)
            n    == IF Cardinality(surv) < cap THEN Cardinality(surv) ELSE cap
        IN  /\ IsSubsequence(res, senseIn)
            /\ Len(res) = n
            /\ \A k \in 1..n : res[k] = senseIn[NthOf(surv, k)]
            /\ (res = <<>>) <=> (surv = {})

\* a sense was removed ahead of a kept one and the cap cut the tail as well
C7_Witness ==
    /\ senseOut # None
    /\ senseOut[1] # <<>>
    /\ LET surv == Survivors
       IN  /\ Cardinality(surv) > CapForLevel(senseLevel)
           /\ \E i \in 1..Len(senseIn) : i \notin surv /\ i + 1 \in surv

-----------------------------------------------------------------------------
(* build-indices.js: buildJmdict                                           *)

\* for (const k of keys) (map[k] ??= []).push(seq)
RECURSIVE PushAll(_, _, _)
PushAll(map, keys, seq) ==
    IF keys = <<>> THEN map
    ELSE PushAll(Push(map, Head(keys), seq), Tail(keys), seq)

\* the property order of an object after the pushes above: new keys go last
RECURSIVE KeysAfter(_, _)
KeysAfter(order, keys) ==
    IF keys = <<>> THEN order
    ELSE KeysAfter(SetAdd(order, Head(keys)), Tail(keys))

\* for (const ch of k) if (isKanji(ch)) (kanjiCharIndex[ch] ??= new Set()).add(seq)
RECURSIVE IndexChars(_, _, _)
IndexChars(index, k, seq) ==
    IF k = <<>> THEN index
    ELSE IndexChars(IF isKanjiIndex(Head(k)) THEN AddToSet(index, Head(k), seq)
                    ELSE index,
                    Tail(k), seq)

\* IndexSpellings with only the primary spelling of a record indexed
IndexPrimarySpellingOnly(index, kanji, seq) ==
    IF kanji = <<>> THEN index ELSE IndexChars(index, Head(kanji), seq)

\* for (const k of kanji) for (const ch of k) ...
RECURSIVE IndexSpellings(_, _, _)
IndexSpellings(index, kanji, seq) ==
    IF kanji = <<>> THEN index
    ELSE IndexSpellings(IndexChars(index, Head(kanji), seq), Tail(kanji), seq)

\* a raw record after the XML parser: its keb and reb values, the ke_pri and
\* re_pri markers of all its elements, its sense blocks
Raw(kanji, readings, ke_pri, re_pri, senses) ==
    [kanji |-> kanji, readings |-> readings, ke_pri |-> ke_pri,
     re_pri |-> re_pri, senses |-> senses]

\* the entry buildJmdict stores for a raw record
EntryOf(seq, raw) ==
    [seq      |-> seq,
     kanji    |-> raw.kanji,
     readings |-> raw.readings,
     priority |-> SetOf(raw.ke_pri \o raw.re_pri),
     senses   |-> raw.senses]

\* entries[seq] = ... with readings-only records left out of entries
StoreEntryIfSpelled(ents, seq, raw) ==
    IF raw.kanji = <<>> THEN ents ELSE ents @@ (seq :> EntryOf(seq, raw))

\* entries[seq] = { seq, kanji, readings, priority, senses }
StoreEntry(ents, seq, raw) == ents @@ (seq :> EntryOf(seq, raw))


-----------------------------------------------------------------------------
(* Input data of the runs: words, tags, raw records, the kanji table and   *)
(* the JLPT word lists.                                                    *)

wTe     == <<Ch.te>>                                   \* 手
wTegami == <<Ch.te, Ch.kami>>                          \* 手紙
wKami   == <<Ch.kami>>                                 \* 紙
wJouzu  == <<Ch.ue, Ch.te>>                            \* 上手
wFour   == <<Ch.te, Ch.kami, Ch.ue, Ch.te>>            \* four ideographs
wLong   == <<Ch.te, Ch.kTe, Ch.kGa, Ch.kMi, Ch.kTe, Ch.kGa, Ch.kMi>>  \* seven characters
wUso    == <<Ch.te, Ch.uso>>                           \* an ungraded ideograph
wTou    == <<Ch.te, Ch.tou>>                           \* an ideograph the kanji table lacks
wExtB   == <<Ch.te, Ch.extB>>                          \* an extension B ideograph
rTe     == <<Ch.kTe>>                                  \* て
rTegami == <<Ch.kTe, Ch.kGa, Ch.kMi>>                  \* てがみ
rKami   == <<Ch.kGa, Ch.kMi>>
rJouzu  == <<Ch.kMi, Ch.kTe>>

ichi1 == <<"i","c","h","i","1">>
ichi2 == <<"i","c","h","i","2">>
news1 == <<"n","e","w","s","1">>
nf01  == <<"n","f","0","1">>

posAdj == <<"a","d","j","e","c","t","i","v","e"," ","(","k","e","i","y","o","u","s","h","i",")">>

gHand     == <<"h","a","n","d">>
gLetter   == <<"l","e","t","t","e","r">>
gPaper    == <<"p","a","p","e","r">>
gSkillful == <<"s","k","i","l","l","f","u","l">>

mIdiomatic == <<"i","d","i","o","m","a","t","i","c"," ","e","x","p","r","e","s","s","i","o","n">>
mProverb   == <<"p","r","o","v","e","r","b">>
mProverbCap == <<"P","r","o","v","e","r","b">>
mYoji      == <<"y","o","j","i","j","u","k","u","g","o">>
mVulgar    == <<"v","u","l","g","a","r"," ","e","x","p","r","e","s","s","i","o","n"," ","o","r"," ","w","o","r","d">>
mArchaism  == <<"a","r","c","h","a","i","s","m">>
mArchaic   == <<"a","r","c","h","a","i","c">>

RawPool ==
    { \* 手: the plain source word
      Raw(<<wTe>>, <<rTe>>, <<ichi1>>, <<>>, <<Sense(<<posNoun>>, <<gHand>>, <<>>)>>),
      \* 手紙, tagged idiomatic expression first and proverb second
      Raw(<<wTegami>>, <<rTegami>>, <<ichi1>>, <<ichi1>>,
          <<Sense(<<posNoun>>, <<gLetter>>, <<mIdiomatic, mProverb>>)>>),
      \* 紙 with the second spelling 上手
      Raw(<<wKami, wJouzu>>, <<rKami>>, <<news1>>, <<>>,
          <<Sense(<<posNoun>>, <<gPaper>>, <<mYoji>>)>>),
      \* 上手 without priority markers, a proverb tag on its second sense
      Raw(<<wJouzu>>, <<rJouzu>>, <<>>, <<>>,
          <<Sense(<<posAdj>>, <<gSkillful>>, <<>>),
            Sense(<<posNoun>>, <<gHand>>, <<mProverb>>)>>),
      \* 手紙 tagged archaism (the old expansion of the entity arch)
      Raw(<<wTegami>>, <<rTegami>>, <<ichi1>>, <<>>,
          <<Sense(<<posNoun>>, <<gLetter>>, <<mArchaism>>)>>),
      \* 手紙 tagged archaic (the current expansion of the entity arch)
      Raw(<<wTegami>>, <<rTegami>>, <<ichi1>>, <<>>,
          <<Sense(<<posNoun>>, <<gLetter>>, <<mArchaic>>)>>),
      \* four ideographs, tagged yojijukugo only
      Raw(<<wFour>>, <<rTegami>>, <<ichi1>>, <<>>,
          <<Sense(<<posNoun>>, <<gLetter>>, <<mYoji>>)>>),
      \* seven characters, tagged Proverb
      Raw(<<wLong>>, <<rTegami>>, <<ichi1>>, <<>>,
          <<Sense(<<posNoun>>, <<gLetter>>, <<mProverbCap>>)>>),
      \* an ungraded ideograph, tagged vulgar expression or word
      Raw(<<wUso>>, <<rTe>>, <<ichi1>>, <<>>,
          <<Sense(<<posNoun>>, <<gHand>>, <<mVulgar>>)>>),
      \* an ideograph missing from the kanji table
      Raw(<<wTou>>, <<rTegami>>, <<ichi1>>, <<>>,
          <<Sense(<<posNoun>>, <<gHand>>, <<>>)>>),
      \* an extension B ideograph
      Raw(<<wExtB>>, <<rTegami>>, <<ichi1>>, <<>>,
          <<Sense(<<posNoun>>, <<gHand>>, <<>>)>>),
      \* て: no spelling, one reading, a frequency marker on the reading
      Raw(<<>>, <<rTe>>, <<>>, <<nf01, ichi2>>,
          <<Sense(<<posNoun>>, <<gHand>>, <<>>)>>),
      \* neither spelling nor reading
      Raw(<<>>, <<>>, <<>>, <<>>, <<>>) }

\* kanjidic2.json: character -> grade and (old) JLPT level, both optional
KanjiInfo(grade, jlpt) == [grade |-> grade, jlpt |-> jlpt]

kanjidic2 ==
    (Ch.te   :> KanjiInfo(Some(1), Some(3))) @@
    (Ch.kami :> KanjiInfo(Some(2), Some(3))) @@
    (Ch.ue   :> KanjiInfo(Some(1), Some(4))) @@
    (Ch.utsu :> KanjiInfo(Some(8), None)) @@
    (Ch.uso  :> KanjiInfo(None, None)) @@
    (Ch.ai   :> KanjiInfo(Some(4), Some(2))) @@
    (Ch.yume :> KanjiInfo(Some(5), Some(2))) @@
    (Ch.shika :> KanjiInfo(Some(8), None))

\* a line of a word-list file: { word, reading, ... }
ListLine(word, reading) == [word |-> word, reading |-> reading]

\* words.push({ ...entry, jlpt: `N${n}` })
JlptWord(line, jlpt) == [word |-> line.word, reading |-> line.reading, jlpt |-> jlpt]

\* for (const n of [5, 4, 3, 2, 1]): the files are read from N5 to N1
LevelOrder == <<"N5", "N4", "N3", "N2", "N1">>

\* loadJlptWords: the lines of the five files, easiest level first, each
\* with the level of its file
loadJlptWords(files) ==
    Flat([n \in 1..Len(LevelOrder) |->
            [i \in 1..Len(files[LevelOrder[n]]) |->
                JlptWord(files[LevelOrder[n]][i], LevelOrder[n])]])

LevelOrNone == {None} \cup {Some(l) : l \in Levels}

\* the word-list files: 手, 紙 and て in the file of level s; 手紙, 紙 and 上手
\* in the file of level c when c is a level, so that 紙 is then listed twice
ListFiles(s, c) ==
    [l \in Levels |->
        (IF l = s THEN <<ListLine(wTe, rTe), ListLine(wKami, rKami), ListLine(rTe, rTe)>>
         ELSE <<>>)
        \o (IF c = Some(l) THEN <<ListLine(wTegami, rTegami), ListLine(wKami, rKami),
                                   ListLine(wJouzu, rJouzu)>>
            ELSE <<>>)]

MkEnWords(s, c) == loadJlptWords(ListFiles(s, c))

EnWordsChoices == {MkEnWords(s, c) : s \in Levels, c \in LevelOrNone}


-----------------------------------------------------------------------------
(* build.js: helpers of the batch                                          *)

Digits == <<"0","1","2","3","4","5","6","7","8","9">>

DigitValue(c) == (CHOOSE i \in 1..Len(Digits) : Digits[i] = c) - 1

\* parseInt of a string of decimal digits
RECURSIVE ParseInt(_)
ParseInt(ds) ==
    IF ds = <<>> THEN 0
    ELSE ParseInt(SubSeq(ds, 1, Len(ds) - 1)) * 10 + DigitValue(ds[Len(ds)])

\* t.match(/^nf(\d+)$/)
IsNfTag(tag) ==
    /\ Len(tag) >= 3
    /\ tag[1] = "n" /\ tag[2] = "f"
    /\ \A i \in 3..Len(tag) : tag[i] \in Range(Digits)

freqRank(priority) ==
    LET nf == SelectSeq(priority, IsNfTag)
    IN  IF nf # <<>> THEN Some((ParseInt(SubSeq(nf[1], 3, Len(nf[1]))) - 1) * 500 + 250)
        ELSE IF <<"i","c","h","i","1">> \in Range(priority) THEN Some(5000)
        ELSE IF <<"i","c","h","i","2">> \in Range(priority) THEN Some(10000)
        ELSE IF <<"n","e","w","s","1">> \in Range(priority) THEN Some(12000)
        ELSE IF <<"n","e","w","s","2">> \in Range(priority) THEN Some(20000)
        ELSE None

\* freqRank(...) ?? 99999
FreqOrLast(priority) ==
    IF freqRank(priority) = None THEN 99999 ELSE freqRank(priority)[1]

\* e.kanji[0] || e.readings[0]; <<>> stands for undefined
PrimarySpelling(e) ==
    IF e.kanji # <<>> /\ e.kanji[1] # <<>> THEN e.kanji[1]
    ELSE IF e.readings # <<>> THEN e.readings[1]
    ELSE <<>>

\* e.senses[0]?.meanings[0] ?? ''
FirstMeaning(e) ==
    IF e.senses # <<>> /\ e.senses[1].meanings # <<>> THEN e.senses[1].meanings[1]
    ELSE <<>>

\* e.readings[0], optional
FirstReading(e) == IF e.readings # <<>> THEN Some(e.readings[1]) ELSE None

\* senses.flatMap((s) => s.pos)
AllPos(senses) == Flat([i \in 1..Len(senses) |-> senses[i].pos])

\* jlptMap: the level of the first list line that carries the word
jlptMapGet(list, word) ==
    LET hits == SelectSeq(list, LAMBDA e : e.word = word)
    IN  IF hits = <<>> THEN None ELSE Some(hits[1].jlpt)

\* enWords.filter: every word once, its first line kept
RECURSIVE DedupWords(_)
DedupWords(list) ==
    IF list = <<>> THEN <<>>
    ELSE LET front == DedupWords(SubSeq(list, 1, Len(list) - 1))
             last  == list[Len(list)]
         IN  IF \E i \in 1..Len(front) : front[i].word = last.word THEN front
             ELSE Append(front, last)

\* slot of x in a list sorted by ascending frequency rank, after its equals
RECURSIVE InsertByFreq(_, _)
InsertByFreq(sorted, x) ==
    IF sorted = <<>> THEN <<x>>
    ELSE IF FreqOrLast(entries[x].priority) < FreqOrLast(entries[Head(sorted)].priority)
         THEN <<x>> \o sorted
         ELSE <<Head(sorted)>> \o InsertByFreq(Tail(sorted), x)

\* [...seqs].sort((a, b) => fa - fb), a stable sort
RECURSIVE SortByFreq(_)
SortByFreq(seqs) ==
    IF seqs = <<>> THEN <<>>
    ELSE InsertByFreq(SortByFreq(SubSeq(seqs, 1, Len(seqs) - 1)), seqs[Len(seqs)])

\* let seqs = wordLookup[word]; if (!seqs?.length) seqs = readingLookup[word]
LookupSeqs(word) ==
    IF Get(wordLookup, word) # <<>> THEN Get(wordLookup, word)
    ELSE Get(readingLookup, word)

\* the choice of primarySeq among the matched ids
PrimarySeqOf(word, seqs) ==
    IF word \notin DOMAIN wordLookup /\ Len(seqs) > 1 THEN SortByFreq(seqs)[1]
    ELSE seqs[1]

\* a variant that sorts the array of the lookup table itself
SeqsSortedInPlace(seqs) == SortByFreq(seqs)

\* [...seqs].sort(...): the sort works on a copy, the array that the lookup
\* table holds keeps its order
SeqsAfterSort(seqs) == seqs

\* readingLookup after the choice of primarySeq for a word
LookupAfterPrimary(word) ==
    IF /\ word \notin DOMAIN wordLookup
       /\ word \in DOMAIN readingLookup
       /\ Len(readingLookup[word]) > 1
    THEN [readingLookup EXCEPT ![word] = SeqsAfterSort(@)]
    ELSE readingLookup


-----------------------------------------------------------------------------
(* build.js: related words                                                 *)

RelatedTop == 20    \* .slice(0, 20) before the level filter
RelatedCap == 8     \* .slice(0, 8) after the level filter

\* the number of characters of cWord that are ideographs of the source word
SharedKanji(cWord, sourceWord) ==
    Cardinality({i \in 1..Len(cWord) :
        \E j \in 1..Len(sourceWord) : isKanji(sourceWord[j]) /\ sourceWord[j] = cWord[i]})

scoreRelated(candidate, sourceWord, sourceJlpt, sourceFreq, sourcePosSet, list) ==
    LET cWord == PrimarySpelling(candidate)
        cFreq == freqRank(candidate.priority)
        cJlpt == jlptMapGet(list, cWord)
        cPos  == Range(AllPos(candidate.senses))
        diff  == IF cFreq # None /\ sourceFreq # None THEN cFreq[1] - sourceFreq[1] ELSE 0
    IN  SharedKanji(cWord, sourceWord)
        + (IF cJlpt # None /\ cJlpt = Some(sourceJlpt) THEN 2 ELSE 0)
        + (IF cFreq # None /\ sourceFreq # None /\ diff < 3000 /\ 0 - diff < 3000
           THEN 1 ELSE 0)
        + (IF cPos \cap sourcePosSet # {} THEN 2 ELSE 0 - 1)

\* m.includes('archais') || m.includes('obsolete'), for some misc tag of some sense
HasArchaicMisc(entry) ==
    \E i \in 1..Len(entry.senses) :
        \E j \in 1..Len(entry.senses[i].misc) :
            \/ Includes(entry.senses[i].misc[j], <<"a","r","c","h","a","i","s">>)
            \/ Includes(entry.senses[i].misc[j], <<"o","b","s","o","l","e","t","e">>)

\* an ideograph the kanji table lacks or records with neither grade nor level
Ungraded(ch) ==
    \/ ch \notin DOMAIN kanjidic2
    \/ /\ (kanjidic2[ch].grade = None \/ kanjidic2[ch].grade = Some(0))
       /\ (kanjidic2[ch].jlpt = None \/ kanjidic2[ch].jlpt = Some(0))

isNoise(entry) ==
    LET w == PrimarySpelling(entry)
    IN  \/ kanjiCount(w) >= 4
        \/ HasArchaicMisc(entry)
        \/ StrLength(w) > 6
        \/ \E i \in 1..Len(w) : isKanji(w[i]) /\ Ungraded(w[i])

\* AddUnmatched without the test against matched
AddEvenMatched(acc, seqs, matched) == KeysAfter(acc, seqs)

\* relSeqs.add(s) for every s of seqs that is not in matched
AddUnmatched(acc, seqs, matched) ==
    acc \o SetOf(SelectSeq(seqs, LAMBDA s : s \notin matched /\ s \notin Range(acc)))

\* the keys of a map in ascending order
RECURSIVE KeysAscending(_)
KeysAscending(keys) ==
    IF keys = {} THEN <<>>
    ELSE LET least == CHOOSE k \in keys : \A other \in keys : k <= other
         IN  <<least>> \o KeysAscending(keys \ {least})

\* RelSeqsFrom walking every key of the character index instead of the
\* characters of w
RelSeqsFromEveryKey(acc, w, matched) ==
    LET keys == KeysAscending(DOMAIN kanjiCharIndex)
    IN  AddUnmatched(acc, Flat([i \in 1..Len(keys) |-> kanjiCharIndex[keys[i]]]), matched)

\* relSeqs of the batch loop: the ids indexed under the ideographs of w
RECURSIVE RelSeqsFrom(_, _, _)
RelSeqsFrom(acc, w, matched) ==
    IF w = <<>> THEN acc
    ELSE RelSeqsFrom(IF isKanji(Head(w)) /\ Head(w) \in DOMAIN kanjiCharIndex
                     THEN AddUnmatched(acc, kanjiCharIndex[Head(w)], matched)
                     ELSE acc,
                     Tail(w), matched)

\* the comparator of the related sort says a goes before b
RelatedBefore(a, b) ==
    \/ a.score > b.score
    \/ /\ a.score = b.score
       /\ FreqOrLast(a.entry.priority) < FreqOrLast(b.entry.priority)

RECURSIVE InsertRelated(_, _)
InsertRelated(sorted, x) ==
    IF sorted = <<>> THEN <<x>>
    ELSE IF RelatedBefore(x, Head(sorted)) THEN <<x>> \o sorted
         ELSE <<Head(sorted)>> \o InsertRelated(Tail(sorted), x)

\* Array.prototype.sort with the related comparator, a stable sort
RECURSIVE SortRelated(_)
SortRelated(items) ==
    IF items = <<>> THEN <<>>
    ELSE InsertRelated(SortRelated(SubSeq(items, 1, Len(items) - 1)), items[Len(items)])

\* the output shape of a related word; seq is not written by the program, it
\* records which entry the item was made from
RelatedItem(e) ==
    [seq |-> e.seq, word |-> PrimarySpelling(e), reading |-> FirstReading(e),
     meaning |-> FirstMeaning(e)]

filterRelatedByJlpt(related, sourceJlpt, list) ==
    LET sourceRank == RankOf(Some(sourceJlpt))
        minRank    == IF sourceRank - 1 > 1 THEN sourceRank - 1 ELSE 1
    IN  SelectSeq(related, LAMBDA r :
            /\ jlptMapGet(list, r.word) # None
            /\ RankOf(jlptMapGet(list, r.word)) >= minRank)

\* step 6 of the batch loop up to the scoring: the candidates that have a
\* priority marker and are not noise, each with its entry and score
RelatedCandidates(w, jlpt, sourceFreq, sourcePosSet, matched, list) ==
    LET relSeqs  == RelSeqsFrom(<<>>, w, matched)
        known    == SelectSeq(relSeqs, LAMBDA q : q \in DOMAIN entries)
        cands    == SelectSeq([i \in 1..Len(known) |-> entries[known[i]]],
                              LAMBDA e : Len(e.priority) > 0 /\ ~isNoise(e))
    IN  [i \in 1..Len(cands) |->
            [entry |-> cands[i],
             score |-> scoreRelated(cands[i], w, jlpt, sourceFreq, sourcePosSet, list)]]

\* .filter(({ score }) => score > 0).sort(...)
RelatedRanked(w, jlpt, sourceFreq, sourcePosSet, matched, list) ==
    SortRelated(SelectSeq(RelatedCandidates(w, jlpt, sourceFreq, sourcePosSet, matched, list),
                          LAMBDA x : x.score > 0))

\* step 6 of the batch loop up to the top-20 cut
RelatedScored(w, jlpt, sourceFreq, sourcePosSet, matched, list) ==
    LET top == Slice0(RelatedRanked(w, jlpt, sourceFreq, sourcePosSet, matched, list),
                      RelatedTop)
    IN  [i \in 1..Len(top) |-> RelatedItem(top[i].entry)]

\* the related list with the level filter applied before the top-20 cut
RelatedForFilterFirst(w, jlpt, sourceFreq, allPos, matched, list) ==
    LET ranked == RelatedRanked(w, jlpt, sourceFreq, Range(allPos), matched, list)
        items  == [i \in 1..Len(ranked) |-> RelatedItem(ranked[i].entry)]
    IN  Slice0(Slice0(filterRelatedByJlpt(items, jlpt, list), RelatedTop), RelatedCap)

\* step 6 of the batch loop: the related list of the record
RelatedFor(w, jlpt, sourceFreq, allPos, matched, list) ==
    IF \E i \in 1..Len(allPos) : Includes(toLowerCase(allPos[i]), <<"i","n","t","e","r","j","e","c","t","i","o","n">>)
    THEN <<>>
    ELSE Slice0(filterRelatedByJlpt(
                    RelatedScored(w, jlpt, sourceFreq, Range(allPos), matched, list),
                    jlpt, list),
                RelatedCap)


-----------------------------------------------------------------------------
(* idioms.js                                                               *)

IdiomTop == 10      \* .slice(0, 10)

\* the tests isIdiomaticExpression applies to one lower-cased misc tag
IsIdiomTag(lower) ==
    \/ Includes(lower, <<"i","d","i","o","m">>)
    \/ Includes(lower, <<"p","r","o","v","e","r","b">>)
    \/ Includes(lower, <<"e","x","p","r","e","s","s","i","o","n">>)
    \/ Includes(lower, <<"y","o","j","i","j","u","k","u","g","o">>)
    \/ Includes(lower, <<"f","o","u","r","-","c","h","a","r","a","c","t","e","r"," ","i","d","i","o","m">>)

\* senses.flatMap((s) => s.misc): the misc tags in sense order, then tag order
AllMisc(entry) == Flat([i \in 1..Len(entry.senses) |-> entry.senses[i].misc])

isIdiomaticExpression(entry) ==
    \E i \in 1..Len(AllMisc(entry)) : IsIdiomTag(toLowerCase(AllMisc(entry)[i]))

scoreIdiom(idiomEntry, sourceWord, sourceFreq) ==
    LET idiomWord == PrimarySpelling(idiomEntry)
    IN  (IF Includes(idiomWord, sourceWord) THEN 10 ELSE 0)
        + (IF StrLength(idiomWord) <= 6 THEN 2
           ELSE IF StrLength(idiomWord) <= 10 THEN 1 ELSE 0)
        + (IF Len(idiomEntry.priority) > 0 THEN 5 ELSE 0)

\* the type one lower-cased misc tag decides, <<>> when it decides none
TypeOfTag(lower) ==
    IF Includes(lower, <<"p","r","o","v","e","r","b">>) THEN Some("proverb")
    ELSE IF Includes(lower, <<"y","o","j","i","j","u","k","u","g","o">>) \/ Includes(lower, <<"f","o","u","r","-","c","h","a","r","a","c","t","e","r"," ","i","d","i","o","m">>)
         THEN Some("yojijukugo")
    ELSE IF Includes(lower, <<"i","d","i","o","m">>) THEN Some("idiom")
    ELSE None

\* IdiomType deciding by the strongest tag of the entry, whatever its place
IdiomTypeByPriority(entry) ==
    LET types == {TypeOfTag(toLowerCase(AllMisc(entry)[i])) : i \in 1..Len(AllMisc(entry))}
    IN  IF Some("proverb") \in types THEN "proverb"
        ELSE IF Some("yojijukugo") \in types THEN "yojijukugo"
        ELSE IF Some("idiom") \in types THEN "idiom"
        ELSE "expression"

\* the loops that set type in extractIdioms: the first tag that decides a type
\* ends both loops
IdiomType(entry) ==
    LET deciding == SelectSeq(AllMisc(entry), LAMBDA m : TypeOfTag(toLowerCase(m)) # None)
    IN  IF deciding = <<>> THEN "expression"
        ELSE TypeOfTag(toLowerCase(deciding[1]))[1]

\* the first loop of extractIdioms: ids indexed under the characters of word
RECURSIVE IdiomSeqsByChar(_, _, _)
IdiomSeqsByChar(acc, word, excludeSeqs) ==
    IF word = <<>> THEN acc
    ELSE IdiomSeqsByChar(IF Head(word) \in DOMAIN kanjiCharIndex
                         THEN AddUnmatched(acc, kanjiCharIndex[Head(word)], excludeSeqs)
                         ELSE acc,
                         Tail(word), excludeSeqs)

\* Object.values(jmdict.wordLookup).flat()
AllLookupSeqs == Flat([i \in 1..Len(wordOrder) |-> wordLookup[wordOrder[i]]])

\* the second loop of extractIdioms: the ids, in scan order, of the entries
\* whose primary spelling contains word are added to the set
IdiomSeqsByScan(acc, seqs, word, excludeSeqs) ==
    acc \o SetOf(SelectSeq(seqs, LAMBDA q :
                    /\ q \in DOMAIN entries
                    /\ q \notin excludeSeqs
                    /\ Includes(PrimarySpelling(entries[q]), word)
                    /\ q \notin Range(acc)))

\* the output shape of an idiom; seq and score are not written by the program
IdiomItem(e, word, sourceFreq) ==
    [seq |-> e.seq, word |-> PrimarySpelling(e), reading |-> FirstReading(e),
     meaning |-> FirstMeaning(e), type |-> IdiomType(e),
     score |-> scoreIdiom(e, word, sourceFreq)]

RECURSIVE InsertIdiom(_, _)
InsertIdiom(sorted, x) ==
    IF sorted = <<>> THEN <<x>>
    ELSE IF x.score > Head(sorted).score THEN <<x>> \o sorted
         ELSE <<Head(sorted)>> \o InsertIdiom(Tail(sorted), x)

\* scoredIdioms.sort((a, b) => b.score - a.score), a stable sort
RECURSIVE SortIdioms(_)
SortIdioms(items) ==
    IF items = <<>> THEN <<>>
    ELSE InsertIdiom(SortIdioms(SubSeq(items, 1, Len(items) - 1)), items[Len(items)])

\* the test an entry passes to be scored, without the containment test
IdiomQualifiesByTagOnly(e, word) == isIdiomaticExpression(e)

\* the test an entry passes to be scored, without the tag test
IdiomQualifiesBySpellingOnly(e, word) == Includes(PrimarySpelling(e), word)

\* the two tests an entry passes to be scored
IdiomQualifies(e, word) ==
    /\ isIdiomaticExpression(e)
    /\ Includes(PrimarySpelling(e), word)

\* extractIdioms without the sort: the first ten scored candidates
extractIdiomsFirstTen(word, sourceFreq, excludeSeqs) ==
    LET byChar == IdiomSeqsByChar(<<>>, word, excludeSeqs)
        candidateSeqs == IdiomSeqsByScan(byChar, AllLookupSeqs, word, excludeSeqs)
        known  == SelectSeq(candidateSeqs, LAMBDA q : q \in DOMAIN entries)
        cands  == SelectSeq([i \in 1..Len(known) |-> entries[known[i]]],
                            LAMBDA e : IdiomQualifies(e, word))
    IN  Slice0([i \in 1..Len(cands) |-> IdiomItem(cands[i], word, sourceFreq)], IdiomTop)

extractIdioms(word, sourceFreq, excludeSeqs) ==
    LET byChar == IdiomSeqsByChar(<<>>, word, excludeSeqs)
        candidateSeqs == IdiomSeqsByScan(byChar, AllLookupSeqs, word, excludeSeqs)
        known  == SelectSeq(candidateSeqs, LAMBDA q : q \in DOMAIN entries)
        cands  == SelectSeq([i \in 1..Len(known) |-> entries[known[i]]],
                            LAMBDA e : IdiomQualifies(e, word))
        scored == [i \in 1..Len(cands) |-> IdiomItem(cands[i], word, sourceFreq)]
    IN  Slice0(SortIdioms(scored), IdiomTop)


-----------------------------------------------------------------------------
(* build.js: the examples index and the example filter                     *)

ExamplesCap == 6    \* index.get(w).length >= 6
MaxExampleLen == 30 \* const maxLen = 30
ExamplesKeep == 2   \* .slice(0, 2)

\* a sentence pair of the corpus
Pair(japanese, english) == [japanese |-> japanese, english |-> english]

sTe     == <<Ch.te, Ch.kGa, Ch.kMi>>        \* contains 手
sTegami == <<Ch.te, Ch.kami, Ch.kGa>>       \* contains 手, 紙 and 手紙
sKana   == <<Ch.kTe, Ch.kGa, Ch.kMi>>       \* contains no ideograph

KanaRun(n) == [i \in 1..n |-> Ch.kTe]

\* the inner loop of buildExamplesIndex: the pair is pushed on the list of
\* every remaining word its sentence contains
RECURSIVE ScanRemaining(_, _, _)
ScanRemaining(index, words, pair) ==
    IF words = <<>> THEN index
    ELSE ScanRemaining(IF Includes(pair.japanese, Head(words))
                       THEN Push(index, Head(words), pair) ELSE index,
                       Tail(words), pair)

\* toRemove with every remaining word retired as soon as one list is full
ToRemoveEveryWord(index, words, pair) ==
    IF \E i \in 1..Len(words) :
          /\ Includes(pair.japanese, words[i])
          /\ Len(index[words[i]]) >= ExamplesCap
    THEN words ELSE <<>>

\* toRemove: the words this pair has brought to the cap
ToRemove(index, words, pair) ==
    SelectSeq(words, LAMBDA w : /\ Includes(pair.japanese, w)
                                /\ Len(index[w]) >= ExamplesCap)

\* the loop over the corpus, left as soon as no word remains
RECURSIVE ExamplesLoop(_, _, _)
ExamplesLoop(index, remaining, pairs) ==
    IF pairs = <<>> \/ remaining = <<>> THEN index
    ELSE LET scanned == ScanRemaining(index, remaining, Head(pairs))
             gone    == ToRemove(scanned, remaining, Head(pairs))
         IN  ExamplesLoop(scanned,
                          SelectSeq(remaining, LAMBDA w : w \notin Range(gone)),
                          Tail(pairs))

buildExamplesIndex(tatoeba, targetWords) ==
    ExamplesLoop(<<>>, SetOf(targetWords), tatoeba)

\* exIdx?.get(jw.word) ?? []
RawExamplesOf(idx, word) == IF idx = None THEN <<>> ELSE Get(idx[1], word)

\* maxGrade of filterExamples
maxGrade(jlptNum) ==
    IF jlptNum >= 4 THEN 2 ELSE IF jlptNum = 3 THEN 4 ELSE IF jlptNum = 2 THEN 6 ELSE 99

\* the grade test on one character of a sentence: TRUE when it rejects
GradeTooHigh(ch, ceiling) ==
    /\ isKanji(ch)
    /\ ch \in DOMAIN kanjidic2
    /\ kanjidic2[ch].grade # None
    /\ kanjidic2[ch].grade # Some(0)
    /\ kanjidic2[ch].grade[1] > ceiling

\* the callback of rawExamples.filter in filterExamples
ExampleKept(ex, jlptNum) ==
    /\ ~(StrLength(ex.japanese) > MaxExampleLen)
    /\ \A i \in 1..Len(ex.japanese) : ~GradeTooHigh(ex.japanese[i], maxGrade(jlptNum))

\* filterExamples without the final slice
filterExamplesUncut(examples, sourceJlpt) ==
    SelectSeq(examples, LAMBDA ex : ExampleKept(ex, RankOf(sourceJlpt)))

filterExamples(examples, sourceJlpt) ==
    Slice0(SelectSeq(examples, LAMBDA ex : ExampleKept(ex, RankOf(sourceJlpt))),
           ExamplesKeep)


-----------------------------------------------------------------------------
(* enrich/conjugation.js: verb class detection and the conjugation table.  *)

\* the kana of the conjugation table, by code point (あ is U+3042)
Kana == [a |-> 12354,
         i |-> 12356,
         u |-> 12358,
         e |-> 12360,
         ka |-> 12363,
         ga |-> 12364,
         ki |-> 12365,
         gi |-> 12366,
         ku |-> 12367,
         gu |-> 12368,
         ke |-> 12369,
         ge |-> 12370,
         ko |-> 12371,
         sa |-> 12373,
         si |-> 12375,
         su |-> 12377,
         se |-> 12379,
         ta |-> 12383,
         da |-> 12384,
         ti |-> 12385,
         tt |-> 12387,
         tu |-> 12388,
         te |-> 12390,
         de |-> 12391,
         na |-> 12394,
         ni |-> 12395,
         nu |-> 12396,
         ne |-> 12397,
         ba |-> 12400,
         bi |-> 12403,
         bu |-> 12406,
         be |-> 12409,
         ma |-> 12414,
         mi |-> 12415,
         mu |-> 12416,
         me |-> 12417,
         ra |-> 12425,
         ri |-> 12426,
         ru |-> 12427,
         re |-> 12428,
         wa |-> 12431,
         nn |-> 12435,
         zu |-> 12378]

Kanji == [taberu |-> 39135,
          miru |-> 35211,
          kaku |-> 26360,
          iku |-> 34892,
          kuru |-> 26469,
          benkyou1 |-> 21193,
          benkyou2 |-> 24375,
          shinjiru |-> 20449,
          matu |-> 24453,
          kau |-> 36023,
          oyogu |-> 27891,
          hanasu |-> 35441,
          sinu |-> 27515,
          asobu |-> 36938,
          nomu |-> 39154]   \* 食 見 書 行 来 勉 強 信 待 買 泳 話 死 遊 飲

\* a string as its UTF-16 code units
Units(str) ==
    Flat([i \in 1..Len(str) |->
            IF str[i] > 65535
            THEN <<55296 + ((str[i] - 65536) \div 1024), 56320 + ((str[i] - 65536) % 1024)>>
            ELSE <<str[i]>>])

IsHigh(u) == u >= 55296 /\ u <= 56319
IsLow(u) == u >= 56320 /\ u <= 57343

\* the characters of a sequence of code units; a surrogate without its
\* partner stays as it is
RECURSIVE CodePoints(_)
CodePoints(units) ==
    IF units = <<>> THEN <<>>
    ELSE IF Len(units) >= 2 /\ IsHigh(units[1]) /\ IsLow(units[2])
         THEN <<65536 + (units[1] - 55296) * 1024 + (units[2] - 56320)>>
              \o CodePoints(SubSeq(units, 3, Len(units)))
    ELSE <<Head(units)>> \o CodePoints(Tail(units))

\* str.slice(0, -n)
SliceEnd(str, n) ==
    LET units == Units(str)
    IN  IF Len(units) <= n THEN <<>> ELSE CodePoints(SubSeq(units, 1, Len(units) - n))

\* str.slice(-1)
LastChar(str) ==
    LET units == Units(str)
    IN  IF units = <<>> THEN <<>> ELSE <<units[Len(units)]>>

GodanRow(a, i, e, te, ta) == [a |-> <<a>>, i |-> <<i>>, e |-> <<e>>, te |-> te, ta |-> ta]

\* a table in which every row but く and ぬ, ぶ, む doubles the consonant
GODAN_MAP_Doubling ==
    [k \in {Kana.u, Kana.ku, Kana.gu, Kana.su, Kana.tu, Kana.nu, Kana.bu, Kana.mu, Kana.ru} |->
        IF k = Kana.ku
        THEN GodanRow(Kana.ka, Kana.ki, Kana.ke, <<Kana.i, Kana.te>>, <<Kana.i, Kana.ta>>)
        ELSE IF k \in {Kana.nu, Kana.bu, Kana.mu}
        THEN GodanRow(Kana.na, Kana.ni, Kana.ne, <<Kana.nn, Kana.de>>, <<Kana.nn, Kana.da>>)
        ELSE GodanRow(Kana.ra, Kana.ri, Kana.re, <<Kana.tt, Kana.te>>, <<Kana.tt, Kana.ta>>)]

GODAN_MAP ==
    Kana.u :> GodanRow(Kana.wa, Kana.i, Kana.e, <<Kana.tt, Kana.te>>, <<Kana.tt, Kana.ta>>)
    @@ Kana.ku :> GodanRow(Kana.ka, Kana.ki, Kana.ke, <<Kana.i, Kana.te>>, <<Kana.i, Kana.ta>>)
    @@ Kana.gu :> GodanRow(Kana.ga, Kana.gi, Kana.ge, <<Kana.i, Kana.de>>, <<Kana.i, Kana.da>>)
    @@ Kana.su :> GodanRow(Kana.sa, Kana.si, Kana.se, <<Kana.si, Kana.te>>, <<Kana.si, Kana.ta>>)
    @@ Kana.tu :> GodanRow(Kana.ta, Kana.ti, Kana.te, <<Kana.tt, Kana.te>>, <<Kana.tt, Kana.ta>>)
    @@ Kana.nu :> GodanRow(Kana.na, Kana.ni, Kana.ne, <<Kana.nn, Kana.de>>, <<Kana.nn, Kana.da>>)
    @@ Kana.bu :> GodanRow(Kana.ba, Kana.bi, Kana.be, <<Kana.nn, Kana.de>>, <<Kana.nn, Kana.da>>)
    @@ Kana.mu :> GodanRow(Kana.ma, Kana.mi, Kana.me, <<Kana.nn, Kana.de>>, <<Kana.nn, Kana.da>>)
    @@ Kana.ru :> GodanRow(Kana.ra, Kana.ri, Kana.re, <<Kana.tt, Kana.te>>, <<Kana.tt, Kana.ta>>)

reKuru     == <<"k","u","r","u"," ","v","e","r","b">>
reSuru     == <<"s","u","r","u"," ","v","e","r","b">>
reGodanIku == <<"g","o","d","a","n"," ","v","e","r","b"," ","-"," ","i","k","u","/","y","u","k","u"," ","s","p","e","c","i","a","l"," ","c","l","a","s","s">>
reGodan    == <<"g","o","d","a","n"," ","v","e","r","b">>
reIchidan  == <<"i","c","h","i","d","a","n"," ","v","e","r","b">>

\* /pattern/i.test(pos) for a pattern of literal characters
TestI(pattern, pos) == Includes(toLowerCase(pos), pattern)

\* the body of the loop of detectVerbClass: the class one tag decides
ClassOfTag(pos) ==
    LET lower == toLowerCase(pos)
    IN  IF Includes(lower, reKuru) THEN Some("kuru")
        ELSE IF Includes(lower, reSuru) THEN Some("suru")
        ELSE IF Includes(lower, reGodanIku) THEN Some("godan-iku")
        ELSE IF Includes(lower, reGodan) THEN Some("godan")
        ELSE IF Includes(lower, reIchidan) THEN Some("ichidan")
        ELSE None

\* a scan that asks for each class in turn whether any tag names it
detectVerbClassByPriority(posTags) ==
    LET named(pattern) == \E i \in 1..Len(posTags) : TestI(pattern, posTags[i])
    IN  IF named(reKuru) THEN Some("kuru")
        ELSE IF named(reSuru) THEN Some("suru")
        ELSE IF named(reGodanIku) THEN Some("godan-iku")
        ELSE IF named(reGodan) THEN Some("godan")
        ELSE IF named(reIchidan) THEN Some("ichidan")
        ELSE None

RECURSIVE detectVerbClass(_)
detectVerbClass(posTags) ==
    IF posTags = <<>> THEN None
    ELSE LET class == ClassOfTag(Head(posTags))
         IN  IF class # None THEN class ELSE detectVerbClass(Tail(posTags))

Forms(type, dictionary, masu, nai, ta, te, potential, passive, causative) ==
    [type |-> type, dictionary |-> dictionary, masu |-> masu, nai |-> nai, ta |-> ta,
     te |-> te, potential |-> potential, passive |-> passive, causative |-> causative]

\* a variant that writes the detected class into `type`
ConjTypeIsClass(verbClass) == verbClass

\* the `type` literal of each branch of conjugate
ConjType(verbClass) ==
    CASE verbClass = "ichidan" -> "ichidan"
      [] verbClass \in {"godan", "godan-iku"} -> "godan"
      [] verbClass \in {"suru", "kuru"} -> "irregular"

sMasu    == <<Kana.ma, Kana.su>>
sNai     == <<Kana.na, Kana.i>>
sRareru  == <<Kana.ra, Kana.re, Kana.ru>>
sSaseru  == <<Kana.sa, Kana.se, Kana.ru>>
sSuru    == <<Kana.su, Kana.ru>>
sKuru    == <<Kana.ku, Kana.ru>>
sKuruK   == <<Kanji.kuru, Kana.ru>>

\* a variant of the ichidan branch that drops the final る only when the
\* character before it is a kana
IchidanStemKanaOnly(word) ==
    IF Len(word) >= 2 /\ word[Len(word) - 1] \in {Kana[k] : k \in DOMAIN Kana}
    THEN SliceEnd(word, 1) ELSE word

\* const stem = word.slice(0, -1) of the ichidan branch
IchidanStem(word) == SliceEnd(word, 1)

Ichidan(word) ==
    LET stem == IchidanStem(word)
    IN  Forms(ConjType("ichidan"), word, stem \o sMasu, stem \o sNai, stem \o <<Kana.ta>>,
              stem \o <<Kana.te>>, stem \o sRareru, stem \o sRareru, stem \o sSaseru)

Godan(word, verbClass) ==
    LET forms == GODAN_MAP[LastChar(word)[1]]
        stem == SliceEnd(word, 1)
        isIku == verbClass = "godan-iku"
    IN  Forms(ConjType(verbClass), word,
              stem \o forms.i \o sMasu,
              stem \o forms.a \o sNai,
              IF isIku THEN stem \o <<Kana.tt, Kana.ta>> ELSE stem \o forms.ta,
              IF isIku THEN stem \o <<Kana.tt, Kana.te>> ELSE stem \o forms.te,
              stem \o forms.e \o <<Kana.ru>>,
              stem \o forms.a \o <<Kana.re, Kana.ru>>,
              stem \o forms.a \o <<Kana.se, Kana.ru>>)

Suru(word) ==
    LET prefix == IF EndsWith(word, sSuru) THEN SliceEnd(word, 2) ELSE <<>>
    IN  Forms(ConjType("suru"), word,
              prefix \o <<Kana.si>> \o sMasu,
              prefix \o <<Kana.si>> \o sNai,
              prefix \o <<Kana.si, Kana.ta>>,
              prefix \o <<Kana.si, Kana.te>>,
              prefix \o <<Kana.de, Kana.ki, Kana.ru>>,
              prefix \o <<Kana.sa, Kana.re, Kana.ru>>,
              prefix \o sSaseru)

Kuru(word) ==
    IF EndsWith(word, sKuruK)
    THEN LET prefix == SliceEnd(word, 2) \o <<Kanji.kuru>>
         IN  Forms(ConjType("kuru"), word, prefix \o sMasu, prefix \o sNai,
                   prefix \o <<Kana.ta>>, prefix \o <<Kana.te>>, prefix \o sRareru,
                   prefix \o sRareru, prefix \o sSaseru)
    ELSE LET prefix == IF EndsWith(word, sKuru) THEN SliceEnd(word, 2) ELSE <<>>
         IN  Forms(ConjType("kuru"), word,
                   prefix \o <<Kana.ki>> \o sMasu,
                   prefix \o <<Kana.ko>> \o sNai,
                   prefix \o <<Kana.ki, Kana.ta>>,
                   prefix \o <<Kana.ki, Kana.te>>,
                   prefix \o <<Kana.ko>> \o sRareru,
                   prefix \o <<Kana.ko>> \o sRareru,
                   prefix \o <<Kana.ko>> \o sSaseru)

\* the branches of conjugate: verbClass is None or Some(class); the result
\* is None for null
ConjugateByClass(word, verbClass) ==
    IF verbClass = None THEN None
    ELSE IF verbClass[1] = "ichidan" THEN Some(Ichidan(word))
    ELSE IF verbClass[1] \in {"godan", "godan-iku"}
         THEN IF LastChar(word) = <<>> \/ LastChar(word)[1] \notin DOMAIN GODAN_MAP
              THEN None
              ELSE Some(Godan(word, verbClass[1]))
    ELSE IF verbClass[1] = "suru" THEN Some(Suru(word))
    ELSE IF verbClass[1] = "kuru" THEN Some(Kuru(word))
    ELSE None

\* a variant whose polite form is built on the stem left by the previous call
conjugateStaleStem(word, reading, verbClass) ==
    LET fresh == ConjugateByClass(word, verbClass)
    IN  IF fresh # None /\ conjLog # <<>>
        THEN Some([fresh[1] EXCEPT
                     !.masu = SliceEnd(conjLog[Len(conjLog)].word, 1) \o sMasu])
        ELSE fresh

\* a variant that gives up on a する or 来る verb whose word does not end so
conjugateNeedsEnding(word, reading, verbClass) ==
    IF /\ verbClass \in {Some("suru"), Some("kuru")}
       /\ ~EndsWith(word, sSuru) /\ ~EndsWith(word, sKuru) /\ ~EndsWith(word, sKuruK)
    THEN None
    ELSE ConjugateByClass(word, verbClass)

\* conjugate(word, reading, verbClass): the reading is not used
conjugate(word, reading, verbClass) == ConjugateByClass(word, verbClass)

-----------------------------------------------------------------------------
(* enrich/pitch.js: the pitch-accent dictionary, a module variable that is *)
(* null until loadPitchDict has read the file.                             *)

Underscore == 95    \* the code point of '_'

\* key.startsWith('_')
IsMetaKey(key) == key # <<>> /\ key[1] = Underscore

Accent(reading, accents) == [reading |-> reading, accents |-> accents]

kMeta == <<Underscore>> \o rTe      \* a metadata key of the file

\* a variant that copies every key of the file
loadPitchDictEveryKey(dict, raw) ==
    IF raw = None THEN dict ELSE Some(raw[1])

\* loadPitchDict: raw is None when the file does not exist, else the parsed
\* object; the result is the new value of pitchDict
loadPitchDict(dict, raw) ==
    IF raw = None THEN dict
    ELSE Some([key \in {k \in DOMAIN raw[1] : ~IsMetaKey(k)} |-> raw[1][key]])

\* lookupPitch(reading): None is null
lookupPitch(reading) ==
    IF pitchDict = None THEN None
    ELSE IF reading \in DOMAIN pitchDict[1] THEN Some(pitchDict[1][reading])
    ELSE None

-----------------------------------------------------------------------------
(* enrich/expressions.js: grammar patterns attached to a word.  A pattern  *)
(* is kept as its `form`; an absent argument of a call is None.            *)

sVerb       == <<"v","e","r","b">>
sIAdjective == <<"i","-","a","d","j","e","c","t","i","v","e">>
sKeiyoushi  == <<"a","d","j","e","c","t","i","v","e"," ","(","k","e","i","y","o","u","s","h","i",")">>
sAdjNoun    == <<"a","d","j","e","c","t","i","v","a","l"," ","n","o","u","n">>
sKeiyodoshi == <<"k","e","i","y","o","d","o","s","h","i">>
sNoun       == <<"n","o","u","n">>

PosTypeOfTag(pos) ==
    LET lower == toLowerCase(pos)
    IN  IF Includes(lower, sVerb) THEN Some("verb")
        ELSE IF Includes(lower, sIAdjective) \/ Includes(lower, sKeiyoushi)
             THEN Some("adjective_i")
        ELSE IF Includes(lower, sAdjNoun) \/ Includes(lower, sKeiyodoshi)
             THEN Some("adjective_na")
        ELSE IF Includes(lower, sNoun) THEN Some("noun")
        ELSE None

RECURSIVE detectPosType(_)
detectPosType(posTags) ==
    IF posTags = <<>> THEN None
    ELSE LET posType == PosTypeOfTag(Head(posTags))
         IN  IF posType # None THEN posType ELSE detectPosType(Tail(posTags))

Times(n, form) == [i \in 1..n |-> form]

\* PATTERNS[jlpt][posType], each pattern by its form
PATTERNS ==
    [N5 |-> [verb |-> <<"dict", "te", "masu_stem", "te", "te", "nai", "te", "ta",
                        "masu_stem", "ta", "te", "nai", "masu_stem", "masu_stem",
                        "masu_stem">>,
             noun |-> Times(10, "dict"),
             adjective_na |-> Times(5, "dict"),
             adjective_i |-> <<"dict">> \o Times(4, "adj_i_stem")],
     N4 |-> [verb |-> <<"dict", "te", "nai", "ta", "dict", "te", "te", "te", "te", "te",
                        "te", "nai", "nai", "masu_stem", "masu_stem", "ta", "ta", "nai">>,
             noun |-> Times(8, "dict"),
             adjective_na |-> Times(4, "dict"),
             adjective_i |-> Times(4, "adj_i_stem")],
     N3 |-> [verb |-> <<"dict", "dict", "ta", "dict", "passive", "causative", "potential",
                        "te", "te", "nai", "masu_stem", "ta", "dict", "te", "dict",
                        "dict", "dict", "ta">>,
             noun |-> Times(6, "dict"),
             adjective_na |-> Times(3, "dict"),
             adjective_i |-> Times(3, "adj_i_stem")],
     N2 |-> [verb |-> <<"nai", "nai", "dict", "dict", "ta", "dict", "dict", "dict", "dict",
                        "dict", "ta", "dict", "dict", "dict", "dict">>,
             noun |-> Times(6, "dict"),
             adjective_na |-> Times(2, "dict"),
             adjective_i |-> Times(1, "adj_i_stem")],
     N1 |-> [verb |-> Times(10, "dict"),
             noun |-> Times(4, "dict"),
             adjective_na |-> <<>>,
             adjective_i |-> <<>>]]

\* word.endsWith('い') on an absent word: TypeError
ResolveThrows(form, word) == form = "adj_i_stem" /\ word = None

\* conjugation?.field ?? null
FormOf(conjugation, field) ==
    IF conjugation = None THEN None ELSE Some(conjugation[1][field])

\* resolveForm, where it does not throw: None is null or undefined
resolveForm(form, word, conjugation) ==
    CASE form = "dict" -> word
      [] form \in {"te", "ta", "nai", "passive", "causative", "potential"} ->
            FormOf(conjugation, form)
      [] form = "masu_stem" ->
            IF conjugation = None \/ conjugation[1].masu = <<>> THEN None
            ELSE LET masu == conjugation[1].masu
                 IN  IF EndsWith(masu, sMasu)
                     THEN Some(SubSeq(masu, 1, Len(masu) - 2)) ELSE Some(masu)
      [] form = "adj_i_stem" ->
            IF EndsWith(word[1], <<Kana.i>>)
            THEN Some(SubSeq(word[1], 1, Len(word[1]) - 1)) ELSE None
      [] OTHER -> word

\* the patterns attachExpressions maps over
MatchedPatterns(posTags, jlpt) ==
    LET posType == detectPosType(posTags)
    IN  IF posType = None \/ jlpt \notin DOMAIN PATTERNS THEN <<>>
        ELSE PATTERNS[jlpt][posType[1]]

AttachThrows(posTags, jlpt, word) ==
    LET matched == MatchedPatterns(posTags, jlpt)
    IN  \E i \in 1..Len(matched) : ResolveThrows(matched[i], word)

\* example: resolved ? resolved + p.suffix : null, the null ones filtered out
attachExpressions(posTags, jlpt, word, conjugation) ==
    SelectSeq(MatchedPatterns(posTags, jlpt),
              LAMBDA form : LET resolved == resolveForm(form, word, conjugation)
                            IN  resolved # None /\ resolved # Some(<<>>))

-----------------------------------------------------------------------------
(* The run of the pipeline: buildJmdict consumes the raw records one by    *)
(* one, main loads the index and the word lists, then the batch loop       *)
(* derives one record for each target word.                                *)

\* step 6 of the documented pipeline: extractIdioms(w, jmdict, sourceFreq, matched)
IdiomsFor(w, sourceFreq, matched) == extractIdioms(w, sourceFreq, matched)

\* what one pass of the batch loop leaves for the target word jw
Skipped(jw, matched) ==
    [word |-> jw.word, jlpt |-> jw.jlpt, status |-> "skip", matched |-> matched,
     w |-> <<>>, senses |-> <<>>, related |-> <<>>, idioms |-> <<>>,
     expressions |-> <<>>, conjugation |-> None, pitch |-> None, examples |-> <<>>]

\* attachExpressions(allPos, jw.jlpt) is called without word and conjugation;
\* an exception it throws leaves the loop and main, nothing is written
Thrown(jw, matched) == [Skipped(jw, matched) EXCEPT !.status = "thrown"]

Derived(jw, seqs) ==
    LET primary == entries[PrimarySeqOf(jw.word, seqs)]
        matched == Range(seqs)
        w == PrimarySpelling(primary)
        r == IF primary.readings # <<>> THEN primary.readings[1] ELSE jw.reading
        sourceFreq == freqRank(primary.priority)
        filteredSenses == filterSenses(primary.senses, Some(jw.jlpt))
        allPos == AllPos(filteredSenses)
    IN  IF filteredSenses = <<>> THEN Skipped(jw, matched)
        ELSE IF AttachThrows(allPos, jw.jlpt, None) THEN Thrown(jw, matched)
        ELSE [word |-> jw.word, jlpt |-> jw.jlpt, status |-> "ok", matched |-> matched,
              w |-> w, senses |-> filteredSenses,
              related |-> RelatedFor(w, jw.jlpt, sourceFreq, allPos, matched, enWords),
              idioms |-> IdiomsFor(w, sourceFreq, matched),
              expressions |-> attachExpressions(allPos, jw.jlpt, None, None),
              conjugation |-> conjugate(w, r, detectVerbClass(allPos)),
              pitch |-> lookupPitch(r),
              examples |-> filterExamples(RawExamplesOf(exIdx, jw.word), Some(jw.jlpt))]

LoopBody(jw) ==
    LET seqs == LookupSeqs(jw.word)
    IN  IF seqs = <<>> THEN Skipped(jw, {})
        ELSE IF PrimarySeqOf(jw.word, seqs) \notin DOMAIN entries
             THEN Skipped(jw, Range(seqs))
        ELSE Derived(jw, seqs)

Init ==
    /\ pc = "index"
    /\ BatchAtStart /\ NothingLoaded /\ PitchAtStart /\ CorpusAtStart /\ FilterAtStart
    /\ conjLog = <<>> /\ relLog = <<>>
    /\ senseIn = <<>> /\ senseLevel = "N5" /\ senseOut = None

\* one pass of the loop over rawEntries in buildJmdict
BuildRecord ==
    /\ pc = "index"
    /\ rawCount < MaxRecords
    /\ \E raw \in RawPool :
        LET seq == rawCount + 1
        IN  /\ entries' = StoreEntry(entries, seq, raw)
            /\ wordLookup' = PushAll(wordLookup, raw.kanji, seq)
            /\ wordOrder' = KeysAfter(wordOrder, raw.kanji)
            /\ readingLookup' = PushAll(readingLookup, raw.readings, seq)
            /\ kanjiCharIndex' = IndexSpellings(kanjiCharIndex, raw.kanji, seq)
    /\ rawCount' = rawCount + 1
    /\ UNCHANGED <<pc, enWords, mainVars, loadedVars, unitVars>>

\* buildJmdict writes jmdict.json; main reads it back and loads the word lists
\* the pitch file and the sentence corpus of the batch runs
BatchPitch ==
    Some((rTe :> Accent(rTe, <<1>>)) @@ (rTegami :> Accent(rTegami, <<0, 4>>))
         @@ (kMeta :> Accent(kMeta, <<9>>)))

BatchCorpus ==
    << Pair(sTe, <<"a">>), Pair(<<Ch.te, Ch.ai>>, <<"b">>), Pair(sTegami, <<"c">>),
       Pair(KanaRun(30) \o wTe, <<"d">>), Pair(sKana, <<"e">>),
       Pair(<<Ch.kami, Ch.kGa>>, <<"f">>), Pair(<<Ch.te, Ch.kTe>>, <<"g">>) >>

LoadIndices ==
    /\ pc = "index"
    /\ pc' = "main"
    /\ pitchDict' = loadPitchDict(pitchDict, BatchPitch)
    /\ \E list \in EnWordsChoices :
         /\ enWords' = list
         /\ exIdx' = Some(buildExamplesIndex(BatchCorpus,
                          [i \in 1..Len(DedupWords(list)) |-> DedupWords(list)[i].word]))
    /\ UNCHANGED <<indexVars, mainVars, unitVars>>

\* one pass of the batch loop of main
ProcessWord ==
    /\ pc = "main"
    /\ wi < Len(DedupWords(enWords))
    /\ \E rec \in {LoopBody(DedupWords(enWords)[wi + 1])} :
         IF rec.status = "thrown"
         THEN /\ pc' = "crashed"
              /\ UNCHANGED mainVars
         ELSE /\ out' = Append(out, rec)
              /\ okCount' = IF rec.status = "ok" THEN okCount + 1 ELSE okCount
              /\ skipCount' = IF rec.status = "skip" THEN skipCount + 1 ELSE skipCount
              /\ wi' = wi + 1
              /\ pc' = pc
    /\ readingLookup' = LookupAfterPrimary(DedupWords(enWords)[wi + 1].word)
    /\ UNCHANGED <<entries, wordLookup, kanjiCharIndex, wordOrder, rawCount, enWords,
                   loadedVars, unitVars>>

\* the loop is over: main prints its totals
Finish ==
    /\ pc = "main"
    /\ wi = Len(DedupWords(enWords))
    /\ pc' = "done"
    /\ UNCHANGED <<indexVars, enWords, mainVars, loadedVars, unitVars>>

Next == BuildRecord \/ LoadIndices \/ ProcessWord \/ Finish

Spec == Init /\ [][Next]_vars


-----------------------------------------------------------------------------
(* Claims about the index, checked on the runs of the pipeline.            *)

\* the characters of a word
Chars(w) == Range(w)

\* the ids a lookup table stores
IdsOf(table) == UNION {Range(table[k]) : k \in DOMAIN table}

\* C1: once the index is built, for every entry e and every character c of
\* any spelling of e, c is an ideograph iff e's id is listed under
\* charLookup[c]; and an id is listed under charLookup[c] only if some
\* spelling of entries[id] contains c.
C1_IndexInvariant ==
    pc # "index" =>
        /\ \A id \in DOMAIN entries :
             \A i \in 1..Len(entries[id].kanji) :
               \A c \in Chars(entries[id].kanji[i]) :
                 isKanjiIndex(c) <=> (c \in DOMAIN kanjiCharIndex
                                      /\ id \in Range(kanjiCharIndex[c]))
        /\ \A c \in DOMAIN kanjiCharIndex :
             \A id \in Range(kanjiCharIndex[c]) :
               /\ id \in DOMAIN entries
               /\ \E i \in 1..Len(entries[id].kanji) : c \in Chars(entries[id].kanji[i])

\* the built index holds an entry whose second spelling alone carries an
\* ideograph, and an entry with a spelling that mixes ideographs and kana
C1_Witness ==
    /\ pc # "index"
    /\ \E id \in DOMAIN entries :
         /\ Len(entries[id].kanji) > 1
         /\ \E c \in Chars(entries[id].kanji[2]) :
              isKanjiIndex(c) /\ c \notin Chars(entries[id].kanji[1])
    /\ \E id \in DOMAIN entries :
         \E i \in 1..Len(entries[id].kanji) :
           /\ \E c \in Chars(entries[id].kanji[i]) : ~isKanjiIndex(c)
           /\ \E c \in Chars(entries[id].kanji[i]) : isKanjiIndex(c)

\* C2: once the index is built, every id stored in wordLookup, readingLookup
\* or kanjiCharIndex is a key of entries.
C2_LookupIdsExist ==
    pc # "index" =>
        /\ IdsOf(wordLookup) \subseteq DOMAIN entries
        /\ IdsOf(readingLookup) \subseteq DOMAIN entries
        /\ IdsOf(kanjiCharIndex) \subseteq DOMAIN entries

\* the built index holds a record found only by its reading and a record
\* found by spelling, reading and character
C2_Witness ==
    /\ pc # "index"
    /\ \E id \in IdsOf(readingLookup) : id \notin IdsOf(wordLookup)
    /\ \E id \in IdsOf(wordLookup) : id \in IdsOf(kanjiCharIndex)


-----------------------------------------------------------------------------
(* Claims about the records of the batch loop.                             *)

\* the positions of the records written so far
Written == 1..Len(out)

\* the items of a list
Items(list) == {list[i] : i \in 1..Len(list)}

RankDistance(a, b) == IF a >= b THEN a - b ELSE b - a

\* C4: every related word of a record has a known level whose rank is at
\* most one step away, harder or easier, from the rank of the source level.
C4_LevelWithinOneBand ==
    \A n \in Written :
        \A r \in Items(out[n].related) :
            /\ jlptMapGet(enWords, r.word) # None
            /\ RankDistance(RankOf(jlptMapGet(enWords, r.word)),
                            RankOf(Some(out[n].jlpt))) <= 1

\* C5: every idiom of a record comes from an entry whose primary spelling
\* contains the target word and which carries a misc tag of the idiom-tag set.
C5_IdiomContainsTarget ==
    \A n \in Written :
        \A d \in Items(out[n].idioms) :
            /\ Includes(PrimarySpelling(entries[d.seq]), out[n].w)
            /\ \E i \in 1..Len(entries[d.seq].senses) :
                 \E j \in 1..Len(entries[d.seq].senses[i].misc) :
                   IsIdiomTag(toLowerCase(entries[d.seq].senses[i].misc[j]))

\* a record with an idiom longer than its target word
C5_Witness ==
    \E n \in Written :
        \E d \in Items(out[n].idioms) :
            /\ Len(d.word) > Len(out[n].w)
            /\ Includes(d.word, out[n].w)

\* noise as the claim words it: four ideographs or more, an archaic or
\* obsolete misc tag, more than six characters, or an ungraded ideograph
NoiseAsStated(e) ==
    LET w == PrimarySpelling(e)
    IN  \/ Cardinality({i \in 1..Len(w) : isKanji(w[i])}) >= 4
        \/ \E i \in 1..Len(e.senses) :
             \E j \in 1..Len(e.senses[i].misc) :
               \/ Includes(e.senses[i].misc[j], <<"a","r","c","h","a","i","c">>)
               \/ Includes(e.senses[i].misc[j], <<"a","r","c","h","a","i","s","m">>)
               \/ Includes(e.senses[i].misc[j], <<"o","b","s","o","l","e","t","e">>)
        \/ StrLength(w) > 6
        \/ \E i \in 1..Len(w) : isKanji(w[i]) /\ Ungraded(w[i])

\* C8: no related word of a record comes from a noise entry.
C8_NoNoiseInRelated ==
    \A n \in Written :
        \A r \in Items(out[n].related) : ~NoiseAsStated(entries[r.seq])

\* the ideographs of a word
Ideographs(w) == {c \in Chars(w) : isKanji(c)}

\* C9 as stated: the emitted word of every related item contains an
\* ideograph of the primary spelling of the source word.
C9_WordSharesIdeograph ==
    \A n \in Written :
        \A r \in Items(out[n].related) :
            Chars(r.word) \cap Ideographs(out[n].w) # {}

\* C9: every related item comes from an entry one of whose spellings, not
\* necessarily the emitted one, contains an ideograph of the primary
\* spelling of the source word.
C9_SomeSpellingSharesIdeograph ==
    \A n \in Written :
        \A r \in Items(out[n].related) :
            \E k \in 1..Len(entries[r.seq].kanji) :
                Chars(entries[r.seq].kanji[k]) \cap Ideographs(out[n].w) # {}

\* a related item found through a second spelling: its emitted word shares
\* no ideograph with the source word
C9_Witness ==
    \E n \in Written :
        \E r \in Items(out[n].related) :
            /\ Len(entries[r.seq].kanji) > 1
            /\ Chars(r.word) \cap Ideographs(out[n].w) = {}

\* the types the misc tags of an entry decide, each tag taken alone
TagTypes(e) == {TypeOfTag(toLowerCase(AllMisc(e)[k])) : k \in 1..Len(AllMisc(e))} \ {None}

\* C10 as stated: the type is the strongest of proverb, yojijukugo, idiom
\* that any misc tag of the entry carries, whatever the order of the tags,
\* and expression when no tag carries any of them.
C10_TypeByStrongestTag ==
    \A n \in Written :
        \A d \in Items(out[n].idioms) :
            LET types == TagTypes(entries[d.seq])
            IN  d.type = IF Some("proverb") \in types THEN "proverb"
                         ELSE IF Some("yojijukugo") \in types THEN "yojijukugo"
                         ELSE IF Some("idiom") \in types THEN "idiom"
                         ELSE "expression"

\* C10: the type is the one decided by the first misc tag, in sense order
\* then tag order, that contains proverb, yojijukugo or four-character idiom,
\* or idiom, these being tested in that order on that one tag; it is
\* expression when no tag decides; an entry whose deciding tags are all
\* yojijukugo is typed yojijukugo.
C10_TypeByFirstDecidingTag ==
    \A n \in Written :
        \A d \in Items(out[n].idioms) :
            LET tags     == AllMisc(entries[d.seq])
                decides  == {k \in 1..Len(tags) : TypeOfTag(toLowerCase(tags[k])) # None}
            IN  /\ decides = {} => d.type = "expression"
                /\ decides # {} =>
                     \E k \in decides :
                        /\ \A l \in decides : k <= l
                        /\ Some(d.type) = TypeOfTag(toLowerCase(tags[k]))
                /\ TagTypes(entries[d.seq]) = {Some("yojijukugo")} => d.type = "yojijukugo"

\* an idiom whose entry carries an idiom tag ahead of a proverb tag
C10_Witness ==
    \E n \in Written :
        \E d \in Items(out[n].idioms) :
            LET tags == AllMisc(entries[d.seq])
            IN  \E k, l \in 1..Len(tags) :
                   /\ k < l
                   /\ TypeOfTag(toLowerCase(tags[k])) = Some("idiom")
                   /\ TypeOfTag(toLowerCase(tags[l])) = Some("proverb")
                   /\ \A j \in 1..(k - 1) : TypeOfTag(toLowerCase(tags[j])) = None


-----------------------------------------------------------------------------
(* Runs of buildExamplesIndex alone: a corpus is put together pair by pair *)
(* and indexed once for a list of target words.                            *)

MaxCorpus == 7      \* sentence pairs in the corpus

CorpusPool ==
    { Pair(sTe, <<"a">>), Pair(sTegami, <<"b">>), Pair(sKana, <<"c">>) }

\* targetWords: one word, two words, a word listed twice, a word no sentence has
TargetChoices ==
    { <<wTe>>, <<wTe, wTegami>>, <<wTegami, wTe, wTe>>, <<wJouzu, wKami>> }

InitExamples ==
    /\ pc = "corpus"
    /\ BatchAtStart /\ NothingLoaded /\ PitchAtStart /\ CorpusAtStart /\ FilterAtStart
    /\ conjLog = <<>> /\ relLog = <<>>
    /\ senseIn = <<>> /\ senseLevel = "N5" /\ senseOut = None

AddPair ==
    /\ pc = "corpus"
    /\ Len(corpus) < MaxCorpus
    /\ \E pair \in CorpusPool : corpus' = Append(corpus, pair)
    /\ UNCHANGED <<pc, batchVars, loadedVars, senseVars, pitchVars, filterVars, conjLog, relLog,
                   exTargets>>

BuildExamples ==
    /\ pc = "corpus"
    /\ \E targetWords \in TargetChoices :
         /\ exTargets' = targetWords
         /\ exIdx' = Some(buildExamplesIndex(corpus, targetWords))
    /\ pc' = "indexed"
    /\ UNCHANGED <<batchVars, pitchDict, senseVars, pitchVars, filterVars, conjLog, relLog, corpus>>

NextExamples == AddPair \/ BuildExamples

SpecExamples == InitExamples /\ [][NextExamples]_vars

\* the corpus pairs whose source sentence contains w, in corpus order
Containing(pairs, w) == SelectSeq(pairs, LAMBDA pair : Includes(pair.japanese, w))

-----------------------------------------------------------------------------
(* Runs of filterExamples alone: a candidate list is put together, then    *)
(* filtered once for a level.                                              *)

MaxExamples == 3    \* candidate sentences handed to filterExamples

ExamplePool ==
    { Pair(sTe, <<"a">>),                           \* grade 1
      Pair(sTegami, <<"b">>),                       \* grades 1 and 2
      Pair(<<Ch.te, Ch.ai>>, <<"c">>),              \* grade 4
      Pair(<<Ch.te, Ch.yume>>, <<"d">>),            \* grade 5
      Pair(<<Ch.te, Ch.utsu>>, <<"e">>),            \* grade 8
      Pair(<<Ch.shika, Ch.kTe>>, <<"f">>),          \* grade 8, extension B
      Pair(<<Ch.te, Ch.uso, Ch.tou>>, <<"g">>),     \* no grade; not in the table
      Pair(KanaRun(30), <<"h">>),                   \* 30 characters
      Pair(KanaRun(31), <<"i">>),                   \* 31 characters
      \* 30 characters, 31 UTF-16 code units
      Pair(KanaRun(29) \o <<Ch.extB>>, <<"j">>) }

InitFilter ==
    /\ pc = "filter"
    /\ BatchAtStart /\ NothingLoaded /\ PitchAtStart /\ CorpusAtStart
    /\ conjLog = <<>> /\ relLog = <<>>
    /\ senseIn = <<>> /\ senseLevel = "N5" /\ senseOut = None
    /\ rawExamples = <<>> /\ exLevel \in Levels /\ exOut = None

AddExample ==
    /\ pc = "filter" /\ exOut = None
    /\ Len(rawExamples) < MaxExamples
    /\ \E ex \in ExamplePool : rawExamples' = Append(rawExamples, ex)
    /\ UNCHANGED <<pc, batchVars, loadedVars, senseVars, pitchVars, corpusVars, conjLog, relLog,
                   exLevel, exOut>>

RunFilterExamples ==
    /\ pc = "filter" /\ exOut = None
    /\ exOut' = Some(filterExamples(rawExamples, Some(exLevel)))
    /\ UNCHANGED <<pc, batchVars, loadedVars, senseVars, pitchVars, corpusVars, conjLog, relLog,
                   rawExamples, exLevel>>

NextFilter == AddExample \/ RunFilterExamples

SpecFilter == InitFilter /\ [][NextFilter]_vars

\* the school grade the kanji table records for a character, 0 when none
RecordedGrade(ch) ==
    IF ch \in DOMAIN kanjidic2 /\ kanjidic2[ch].grade # None
    THEN kanjidic2[ch].grade[1] ELSE 0

\* C11: for an N5 source word filterExamples returns no sentence that
\* contains an ideograph whose recorded school grade exceeds 2.
C11_NoHighGradeAtN5 ==
    (exOut # None /\ exLevel = "N5") =>
        \A n \in 1..Len(exOut[1]) :
            \A i \in 1..Len(exOut[1][n].japanese) :
                RecordedGrade(exOut[1][n].japanese[i]) <= 2


-----------------------------------------------------------------------------
\* C13: in the batch loop every target word ends generated or skipped, the
\* loop is never left early, and at its end generated + skipped is the
\* number of target words.
C13_EveryWordGeneratedOrSkipped ==
    /\ pc # "crashed"
    /\ pc \in {"main", "done"} =>
         /\ okCount + skipCount = wi
         /\ \A n \in 1..Len(out) : out[n].status \in {"ok", "skip"}
    /\ pc = "done" => okCount + skipCount = Len(DedupWords(enWords))


C16_EmptyRecordDropped ==
    \A seq \in DOMAIN entries :
        entries[seq].kanji # <<>> \/ entries[seq].readings # <<>>

-----------------------------------------------------------------------------
(* Calls of detectVerbClass and conjugate alone, each written to a log.    *)

MaxCalls == 3       \* calls of conjugate in one run

tIchidan == <<"I","c","h","i","d","a","n"," ","v","e","r","b">>
tZuru    == <<"I","c","h","i","d","a","n"," ","v","e","r","b"," ","-"," ","z","u","r","u"," ","v","e","r","b"," ","(","a","l","t","e","r","n","a","t","i","v","e"," ","f","o","r","m"," ","o","f"," ","-","j","i","r","u"," ","v","e","r","b","s",")">>
tTrans   == <<"t","r","a","n","s","i","t","i","v","e"," ","v","e","r","b">>
tGodanKu == <<"G","o","d","a","n"," ","v","e","r","b"," ","w","i","t","h"," ","'","k","u","'"," ","e","n","d","i","n","g">>
tGodanTu == <<"G","o","d","a","n"," ","v","e","r","b"," ","w","i","t","h"," ","'","t","s","u","'"," ","e","n","d","i","n","g">>
tGodanRu == <<"G","o","d","a","n"," ","v","e","r","b"," ","w","i","t","h"," ","'","r","u","'"," ","e","n","d","i","n","g">>
tIku     == <<"G","o","d","a","n"," ","v","e","r","b"," ","-"," ","I","k","u","/","Y","u","k","u"," ","s","p","e","c","i","a","l"," ","c","l","a","s","s">>
tSuru    == <<"s","u","r","u"," ","v","e","r","b"," ","-"," ","i","n","c","l","u","d","e","d">>
tKuru    == <<"K","u","r","u"," ","v","e","r","b"," ","-"," ","s","p","e","c","i","a","l"," ","c","l","a","s","s">>

Verb(word, reading, pos) == [word |-> word, reading |-> reading, pos |-> pos]

vTaberu == <<Kanji.taberu, Kana.be, Kana.ru>>      \* 食べる
vMiru   == <<Kanji.miru, Kana.ru>>                 \* 見る
vKaku   == <<Kanji.kaku, Kana.ku>>                 \* 書く
vIku    == <<Kanji.iku, Kana.ku>>                  \* 行く
vMatu   == <<Kanji.matu, Kana.tu>>                 \* 待つ
vShikaru == <<Ch.shika, Kana.ru>>                  \* 𠮟る
vAisuru == <<Ch.ai, Kana.su, Kana.ru>>             \* 愛する
vKuru   == <<Kanji.kuru, Kana.ru>>                 \* 来る
vShinzuru == <<Kanji.shinjiru, Kana.zu, Kana.ru>>  \* 信ずる

VerbPool ==
    { Verb(vTaberu, <<Kana.ta, Kana.be, Kana.ru>>, <<tIchidan, tTrans>>),
      Verb(vMiru, <<Kana.mi, Kana.ru>>, <<tIchidan>>),
      \* the tags of two senses, the ichidan one first
      Verb(vMiru, <<Kana.mi, Kana.ru>>, <<tTrans, tIchidan, tGodanRu>>),
      Verb(vShinzuru, <<Kana.si, Kana.nn, Kana.zu, Kana.ru>>, <<tZuru>>),
      Verb(vKaku, <<Kana.ka, Kana.ku>>, <<tGodanKu, tTrans>>),
      Verb(vMatu, <<Kana.ma, Kana.tu>>, <<tGodanTu>>),
      Verb(vShikaru, <<Kana.si, Kana.ka, Kana.ru>>, <<tGodanRu, tTrans>>),
      Verb(vIku, <<Kana.i, Kana.ku>>, <<tIku>>),
      Verb(vAisuru, <<Kana.a, Kana.i, Kana.su, Kana.ru>>, <<tSuru>>),
      Verb(vKuru, <<Kana.ku, Kana.ru>>, <<tKuru>>),
      Verb(sKuru, <<Kana.ku, Kana.ru>>, <<tKuru>>),
      Verb(wTe, rTe, <<posNoun>>) }

\* calls of conjugate with a class that was not detected from tags
DirectCalls ==
    { <<vKaku, "ichidan">>, <<vKaku, "suru">>, <<vKaku, "kuru">>, <<wTe, "godan">> }

Call(word, reading, pos, detected, verbClass, result) ==
    [word |-> word, reading |-> reading, pos |-> pos, detected |-> detected,
     verbClass |-> verbClass, out |-> result]

InitConj ==
    /\ pc = "conj"
    /\ BatchAtStart /\ NothingLoaded /\ PitchAtStart /\ CorpusAtStart /\ FilterAtStart
    /\ conjLog = <<>> /\ relLog = <<>>
    /\ senseIn = <<>> /\ senseLevel = "N5" /\ senseOut = None

\* verbClass = detectVerbClass(allPos); conjugation = conjugate(w, r, verbClass)
Conjugate ==
    /\ Len(conjLog) < MaxCalls
    /\ \E v \in VerbPool :
         LET verbClass == detectVerbClass(v.pos)
         IN  conjLog' = Append(conjLog,
                 Call(v.word, v.reading, v.pos, TRUE, verbClass,
                      conjugate(v.word, v.reading, verbClass)))
    /\ UNCHANGED <<pc, batchVars, loadedVars, senseVars, pitchVars, corpusVars, filterVars, relLog>>

ConjugateAs ==
    /\ Len(conjLog) < MaxCalls
    /\ \E c \in DirectCalls :
         conjLog' = Append(conjLog,
             Call(c[1], <<>>, <<>>, FALSE, Some(c[2]), conjugate(c[1], <<>>, Some(c[2]))))
    /\ UNCHANGED <<pc, batchVars, loadedVars, senseVars, pitchVars, corpusVars, filterVars, relLog>>

NextConj == Conjugate \/ ConjugateAs

SpecConj == InitConj /\ [][NextConj]_vars

\* a word without its final character
ButLast(word) == SubSeq(word, 1, Len(word) - 1)

\* C17: for the class ichidan, conjugate takes the dictionary form without
\* its final character as the stem and returns stem+ます, stem+ない, stem+た,
\* stem+て, stem+られる for both potential and passive, and stem+させる.
C17_IchidanFixedSuffixes ==
    \A n \in 1..Len(conjLog) :
        conjLog[n].verbClass = Some("ichidan") =>
            LET stem == ButLast(conjLog[n].word)
            IN  /\ conjLog[n].out # None
                /\ conjLog[n].out[1].dictionary = conjLog[n].word
                /\ conjLog[n].out[1].masu = stem \o <<Kana.ma, Kana.su>>
                /\ conjLog[n].out[1].nai = stem \o <<Kana.na, Kana.i>>
                /\ conjLog[n].out[1].ta = stem \o <<Kana.ta>>
                /\ conjLog[n].out[1].te = stem \o <<Kana.te>>
                /\ conjLog[n].out[1].potential = stem \o <<Kana.ra, Kana.re, Kana.ru>>
                /\ conjLog[n].out[1].passive = conjLog[n].out[1].potential
                /\ conjLog[n].out[1].causative = stem \o <<Kana.sa, Kana.se, Kana.ru>>

\* 食べる was conjugated as detected: 食べます, 食べない, 食べた, 食べて
C17_Witness ==
    \E n \in 1..Len(conjLog) :
        /\ conjLog[n].detected /\ conjLog[n].word = vTaberu
        /\ conjLog[n].out # None
        /\ conjLog[n].out[1].masu = <<Kanji.taberu, Kana.be, Kana.ma, Kana.su>>
        /\ conjLog[n].out[1].nai = <<Kanji.taberu, Kana.be, Kana.na, Kana.i>>
        /\ conjLog[n].out[1].ta = <<Kanji.taberu, Kana.be, Kana.ta>>
        /\ conjLog[n].out[1].te = <<Kanji.taberu, Kana.be, Kana.te>>

\* the calls that returned a conjugation block
Blocks == {n \in 1..Len(conjLog) : conjLog[n].out # None}

\* C18 as stated: two verbs whose detected classes differ never receive the
\* same class value in their conjugation blocks.
C18_ClassValueIdentifiesClass ==
    \A i, j \in Blocks :
        conjLog[i].verbClass # conjLog[j].verbClass =>
            conjLog[i].out[1].type # conjLog[j].out[1].type

ClassGroup(class) ==
    IF class = "ichidan" THEN "ichidan"
    ELSE IF class = "godan" \/ class = "godan-iku" THEN "godan"
    ELSE "irregular"

\* C18: the `type` of a conjugation block is one of ichidan, godan and
\* irregular; godan and godan-iku both give godan, suru and kuru both give
\* irregular, so two blocks have the same type exactly when their classes
\* belong to the same of these three groups.
C18_TypeByClassGroup ==
    /\ \A n \in Blocks : conjLog[n].out[1].type = ClassGroup(conjLog[n].verbClass[1])
    /\ \A i, j \in Blocks :
         (conjLog[i].out[1].type = conjLog[j].out[1].type)
            <=> (ClassGroup(conjLog[i].verbClass[1]) = ClassGroup(conjLog[j].verbClass[1]))

\* a godan and a godan-iku verb with the same type, a suru and a kuru verb too
C18_Witness ==
    \E i, j, k \in Blocks :
        /\ conjLog[i].detected /\ conjLog[j].detected /\ conjLog[k].detected
        /\ conjLog[i].verbClass = Some("godan") /\ conjLog[j].verbClass = Some("godan-iku")
        /\ conjLog[i].out[1].type = conjLog[j].out[1].type
        /\ conjLog[k].verbClass \in {Some("suru"), Some("kuru")}
        /\ conjLog[k].out[1].type = "irregular"

ClassPriority == <<"kuru", "suru", "godan-iku", "godan", "ichidan">>

PatternOf(class) ==
    CASE class = "kuru" -> reKuru [] class = "suru" -> reSuru
      [] class = "godan-iku" -> reGodanIku [] class = "godan" -> reGodan
      [] class = "ichidan" -> reIchidan

\* the ranks, 1 the strongest, of the classes whose pattern a tag matches
RanksOf(pos) == {r \in 1..5 : TestI(PatternOf(ClassPriority[r]), pos)}

\* C20: detectVerbClass returns the class of the first tag, in sequence
\* order, that matches any of the five patterns; within that tag the
\* priority kuru > suru > godan-iku > godan > ichidan decides; it returns
\* null exactly when no tag matches any pattern.
C20_FirstMatchingTagDecides ==
    \A n \in 1..Len(conjLog) :
        conjLog[n].detected =>
            LET pos == conjLog[n].pos
                hits == {i \in 1..Len(pos) : RanksOf(pos[i]) # {}}
            IN  /\ (conjLog[n].verbClass = None) <=> (hits = {})
                /\ hits # {} =>
                     LET first == CHOOSE i \in hits : \A k \in hits : i <= k
                         rank == CHOOSE r \in RanksOf(pos[first]) :
                                     \A q \in RanksOf(pos[first]) : r <= q
                     IN  conjLog[n].verbClass = Some(ClassPriority[rank])

\* a tag list whose first matching tag is ichidan and a later one godan; a
\* tag that matches both the godan-iku and the godan pattern; no match
C20_Witness ==
    \E i, j, k \in 1..Len(conjLog) :
        /\ conjLog[i].pos = <<tTrans, tIchidan, tGodanRu>>
        /\ conjLog[i].verbClass = Some("ichidan")
        /\ conjLog[j].pos = <<tIku>> /\ conjLog[j].verbClass = Some("godan-iku")
        /\ conjLog[k].detected /\ conjLog[k].verbClass = None

-----------------------------------------------------------------------------
(* Runs of loadPitchDict and lookupPitch alone.                            *)

MaxLookups == 3     \* calls of lookupPitch in one run

\* the file: missing, empty, metadata only, readings and metadata
PitchSources ==
    { None,
      Some(<<>>),
      Some(kMeta :> Accent(kMeta, <<9>>)),
      Some((rTe :> Accent(rTe, <<1>>)) @@ (rTegami :> Accent(rTegami, <<0, 4>>))
           @@ (kMeta :> Accent(kMeta, <<9>>))) }

ReadingPool == {rTe, rTegami, rKami, kMeta}

InitPitch ==
    /\ pc = "pitch"
    /\ BatchAtStart /\ NothingLoaded /\ PitchAtStart /\ CorpusAtStart /\ FilterAtStart
    /\ conjLog = <<>> /\ relLog = <<>>
    /\ senseIn = <<>> /\ senseLevel = "N5" /\ senseOut = None

\* loadPitchDict(DATA_DIR), called once by main before the loop
LoadPitch ==
    /\ pc = "pitch"
    /\ \E raw \in PitchSources :
         /\ pitchSource' = raw
         /\ pitchDict' = loadPitchDict(pitchDict, raw)
    /\ pc' = "lookups"
    /\ UNCHANGED <<batchVars, exIdx, senseVars, pitchLog, corpusVars, filterVars, conjLog, relLog>>

\* const pitch = lookupPitch(r)
LookupPitch ==
    /\ pc = "lookups"
    /\ Len(pitchLog) < MaxLookups
    /\ \E reading \in ReadingPool :
         pitchLog' = Append(pitchLog, [reading |-> reading, out |-> lookupPitch(reading)])
    /\ UNCHANGED <<pc, batchVars, loadedVars, senseVars, pitchSource, corpusVars, filterVars,
                   conjLog, relLog>>

NextPitch == LoadPitch \/ LookupPitch

SpecPitch == InitPitch /\ [][NextPitch]_vars

\* C15: after loadPitchDict, lookupPitch returns the record of the file for
\* a reading that is a key of the file not starting with an underscore, and
\* null for every other reading; when the file was missing it returns null
\* for every reading of the run.
C15_PitchLookup ==
    \A n \in 1..Len(pitchLog) :
        LET reading == pitchLog[n].reading
        IN  IF /\ pitchSource # None
               /\ reading \in DOMAIN pitchSource[1]
               /\ ~(reading # <<>> /\ reading[1] = 95)
            THEN pitchLog[n].out = Some(pitchSource[1][reading])
            ELSE pitchLog[n].out = None

\* one run finds a reading, misses a reading that is no key, and misses a
\* metadata key that the file holds
C15_Witness ==
    /\ pitchSource # None
    /\ \E i, j, k \in 1..Len(pitchLog) :
         /\ pitchLog[i].out # None
         /\ pitchLog[j].reading \notin DOMAIN pitchSource[1] /\ pitchLog[j].out = None
         /\ pitchLog[k].reading = kMeta /\ kMeta \in DOMAIN pitchSource[1]
         /\ pitchLog[k].out = None

-----------------------------------------------------------------------------
(* Calls of conjugate with a given class, one verb for each row of the     *)
(* table and words that no row or suffix fits.                             *)

MaxFormCalls == 2   \* calls of conjugate in one run

vKau    == <<Kanji.kau, Kana.u>>        \* 買う
vOyogu  == <<Kanji.oyogu, Kana.gu>>     \* 泳ぐ
vHanasu == <<Kanji.hanasu, Kana.su>>    \* 話す
vSinu   == <<Kanji.sinu, Kana.nu>>      \* 死ぬ
vAsobu  == <<Kanji.asobu, Kana.bu>>     \* 遊ぶ
vNomu   == <<Kanji.nomu, Kana.mu>>      \* 飲む

FormCalls ==
    { <<vKau, Some("godan")>>, <<vKaku, Some("godan")>>, <<vOyogu, Some("godan")>>,
      <<vHanasu, Some("godan")>>, <<vMatu, Some("godan")>>, <<vSinu, Some("godan")>>,
      <<vAsobu, Some("godan")>>, <<vNomu, Some("godan")>>, <<vShikaru, Some("godan")>>,
      <<vIku, Some("godan-iku")>>,
      \* no row of the table: a final ideograph, a final surrogate pair, て
      <<wTe, Some("godan")>>, <<wTe, Some("godan-iku")>>, <<wExtB, Some("godan")>>,
      <<rTe, Some("godan")>>,
      \* no class
      <<vKaku, None>>, <<wTe, None>>,
      \* the other classes on a word that does not end as their verbs do
      <<wTe, Some("ichidan")>>, <<wTe, Some("suru")>>, <<wTe, Some("kuru")>>,
      <<vTaberu, Some("ichidan")>>, <<vAisuru, Some("suru")>>, <<vKuru, Some("kuru")>> }

InitForms ==
    /\ pc = "forms"
    /\ BatchAtStart /\ NothingLoaded /\ PitchAtStart /\ CorpusAtStart /\ FilterAtStart
    /\ conjLog = <<>> /\ relLog = <<>>
    /\ senseIn = <<>> /\ senseLevel = "N5" /\ senseOut = None

ConjugateGiven ==
    /\ pc = "forms"
    /\ Len(conjLog) < MaxFormCalls
    /\ \E c \in FormCalls :
         conjLog' = Append(conjLog,
             Call(c[1], <<>>, <<>>, FALSE, c[2], conjugate(c[1], <<>>, c[2])))
    /\ UNCHANGED <<pc, batchVars, loadedVars, senseVars, pitchVars, corpusVars, filterVars, relLog>>

NextForms == ConjugateGiven

SpecForms == InitForms /\ [][NextForms]_vars

\* the calls for a regular godan verb whose final kana is a row of the table
GodanCalls ==
    {n \in 1..Len(conjLog) :
        /\ conjLog[n].verbClass = Some("godan")
        /\ conjLog[n].word[Len(conjLog[n].word)] \in
              {Kana.u, Kana.ku, Kana.gu, Kana.su, Kana.tu, Kana.nu, Kana.bu, Kana.mu, Kana.ru}}

PastAndTe(n, ta, te) ==
    /\ conjLog[n].out # None
    /\ conjLog[n].out[1].ta = ButLast(conjLog[n].word) \o ta
    /\ conjLog[n].out[1].te = ButLast(conjLog[n].word) \o te

\* C21 as stated: past and conjunctive are stem + いた/いて for く, stem +
\* んだ/んで for ぬ, ぶ, む, and stem + った/って for every other final kana.
C21_DoublingForEveryOtherRow ==
    \A n \in GodanCalls :
        LET last == conjLog[n].word[Len(conjLog[n].word)]
        IN  IF last = Kana.ku THEN PastAndTe(n, <<Kana.i, Kana.ta>>, <<Kana.i, Kana.te>>)
            ELSE IF last \in {Kana.nu, Kana.bu, Kana.mu}
                 THEN PastAndTe(n, <<Kana.nn, Kana.da>>, <<Kana.nn, Kana.de>>)
            ELSE PastAndTe(n, <<Kana.tt, Kana.ta>>, <<Kana.tt, Kana.te>>)

\* C21: past and conjunctive of a regular godan verb are stem + いた/いて for
\* く, いだ/いで for ぐ, した/して for す, んだ/んで for ぬ, ぶ, む, and った/って
\* for う, つ, る.
C21_PastAndTeByRow ==
    \A n \in GodanCalls :
        LET last == conjLog[n].word[Len(conjLog[n].word)]
        IN  IF last = Kana.ku THEN PastAndTe(n, <<Kana.i, Kana.ta>>, <<Kana.i, Kana.te>>)
            ELSE IF last = Kana.gu THEN PastAndTe(n, <<Kana.i, Kana.da>>, <<Kana.i, Kana.de>>)
            ELSE IF last = Kana.su THEN PastAndTe(n, <<Kana.si, Kana.ta>>, <<Kana.si, Kana.te>>)
            ELSE IF last \in {Kana.nu, Kana.bu, Kana.mu}
                 THEN PastAndTe(n, <<Kana.nn, Kana.da>>, <<Kana.nn, Kana.de>>)
            ELSE PastAndTe(n, <<Kana.tt, Kana.ta>>, <<Kana.tt, Kana.te>>)

\* 泳ぐ gave 泳いだ and 話す gave 話して
C21_Witness ==
    \E i, j \in GodanCalls :
        /\ conjLog[i].word = vOyogu
        /\ conjLog[i].out[1].ta = <<Kanji.oyogu, Kana.i, Kana.da>>
        /\ conjLog[j].word = vHanasu
        /\ conjLog[j].out[1].te = <<Kanji.hanasu, Kana.si, Kana.te>>


\* the nine final kana that have a row in GODAN_MAP
GodanKeys ==
    {Kana.u, Kana.ku, Kana.gu, Kana.su, Kana.tu, Kana.nu, Kana.bu, Kana.mu, Kana.ru}

C22_NullBlockStillEmitted ==
    \A n \in 1..Len(out) :
        /\ out[n].status = "skip" =>
              \/ out[n].matched = {}
              \/ \A seq \in out[n].matched \cap DOMAIN entries :
                    filterSenses(entries[seq].senses, Some(out[n].jlpt)) = <<>>
                    \/ seq # PrimarySeqOf(out[n].word, LookupSeqs(out[n].word))
        /\ out[n].status = "ok" /\ out[n].conjugation = None => out[n].senses # <<>>

C22_EmittedWitness ==
    \E n \in 1..Len(out) : out[n].status = "ok" /\ out[n].conjugation = None


-----------------------------------------------------------------------------
(* Runs of the related-word step and of extractIdioms on dictionaries of   *)
(* words spelled 手 + kana, built by buildJmdict from a list of records.    *)

KanaList ==
    <<Kana.a, Kana.i, Kana.u, Kana.e, Kana.ka, Kana.ki, Kana.ku, Kana.ke, Kana.ko,
      Kana.sa, Kana.si, Kana.su, Kana.se, Kana.ta, Kana.ti, Kana.tu, Kana.na, Kana.ni,
      Kana.nu, Kana.ne, Kana.ba, Kana.bi, Kana.bu, Kana.be, Kana.ma, Kana.mu>>

DictSizes == {3, 12, Len(KanaList)}

\* 0..2: the features of the k-th word follow k + layout; 3: the words with a
\* level are the first five and the last four, the last four without a rank
Layouts == 0..3

\* the levels of the second word-list file
OtherLevels == {"N4", "N1"}

posAdverb == <<"a","d","v","e","r","b">>
posSuffix == <<"s","u","f","f","i","x">>
spec1     == <<"s","p","e","c","1">>
rHand     == <<Ch.kMi, Ch.kTe>>

NfTag(n) == <<"n", "f", Digits[(n \div 10) + 1], Digits[(n % 10) + 1]>>

HandWord(k) == <<Ch.te, KanaList[k]>>
wExtBTe == <<Ch.te, Ch.extB, Ch.kTe>>     \* 手 + extension B ideograph + て
wTeTe   == <<Ch.te, Ch.te>>               \* 手手

HandRaw(k, layout) ==
    LET f == k + layout
    IN  IF layout = 3
        THEN Raw(<<HandWord(k)>>, <<<<KanaList[k]>>>>,
                 IF k > 22 THEN <<spec1>> ELSE <<NfTag(k)>>, <<>>,
                 <<Sense(<<posNoun>>, <<gHand>>, IF k % 2 = 0 THEN <<mProverb>> ELSE <<>>)>>)
        ELSE Raw(<<HandWord(k)>>, <<<<KanaList[k]>>>>,
                 IF f % 12 = 0 THEN <<>> ELSE IF f % 5 = 1 THEN <<spec1>> ELSE <<NfTag(k)>>,
                 <<>>,
                 <<Sense(IF f % 3 = 0 THEN <<posAdverb>>
                         ELSE IF f % 3 = 1 THEN <<posNoun>> ELSE <<posSuffix, posNoun>>,
                         <<gHand>>,
                         IF f % 2 = 0 THEN <<mProverb>> ELSE <<>>)>>)

\* the records every dictionary starts with
FixedRaws ==
    << \* 手, a noun and a suffix
       Raw(<<wTe>>, <<rHand>>, <<ichi1>>, <<>>,
           <<Sense(<<posNoun, posSuffix>>, <<gHand>>, <<>>)>>),
       \* a word of 手 and an extension B ideograph
       Raw(<<wExtB>>, <<rTegami>>, <<ichi1>>, <<>>, <<Sense(<<posNoun>>, <<gHand>>, <<>>)>>),
       \* て: no spelling, one reading
       Raw(<<>>, <<rTe>>, <<>>, <<nf01>>, <<Sense(<<posNoun>>, <<gHand>>, <<>>)>>),
       \* the same two ideographs followed by て, an idiomatic expression
       Raw(<<wExtBTe>>, <<rKami>>, <<ichi1>>, <<>>,
           <<Sense(<<posNoun>>, <<gHand>>, <<mIdiomatic>>)>>),
       \* 手 twice
       Raw(<<wTeTe>>, <<rKami>>, <<ichi1>>, <<>>, <<Sense(<<posNoun>>, <<gHand>>, <<>>)>>),
       \* てがみ: a proverb without spelling
       Raw(<<>>, <<rTegami>>, <<>>, <<ichi1>>,
           <<Sense(<<posNoun>>, <<gLetter>>, <<mProverb>>)>>),
       \* 手 and seven て: eight characters, a yojijukugo
       Raw(<<<<Ch.te>> \o KanaRun(7)>>, <<rKami>>, <<ichi1>>, <<>>,
           <<Sense(<<posNoun>>, <<gLetter>>, <<mYoji>>)>>),
       \* 手 and eleven て: twelve characters, a proverb without priority marker
       Raw(<<<<Ch.te>> \o KanaRun(11)>>, <<rKami>>, <<>>, <<>>,
           <<Sense(<<posNoun>>, <<gLetter>>, <<mProverb>>)>>) >>

DictRaws(size, layout) == FixedRaws \o [k \in 1..size |-> HandRaw(k, layout)]

\* the word-list line of the k-th word
HandLine(k) == ListLine(HandWord(k), <<KanaList[k]>>)

\* the word-list files: 手, the extension B word and て in the file of level
\* s with some of the 手 words, others of them in the file of level c
HandFiles(size, layout, s, c) ==
    LET inS(k) == IF layout = 3 THEN k <= 5 ELSE (k + layout) % 4 = 1
        inC(k) == IF layout = 3 THEN k > 22 ELSE (k + layout) % 4 = 2
        all == [k \in 1..size |-> k]
        sLines == [i \in 1..Len(SelectSeq(all, inS)) |-> HandLine(SelectSeq(all, inS)[i])]
        cLines == [i \in 1..Len(SelectSeq(all, inC)) |-> HandLine(SelectSeq(all, inC)[i])]
    IN  [l \in Levels |->
            (IF l = s THEN <<ListLine(wTe, rHand), ListLine(wExtB, rTegami),
                             ListLine(rTe, rTe)>> \o sLines
             ELSE <<>>)
            \o (IF l = c THEN cLines ELSE <<>>)]

\* the five tables after the loop of buildJmdict over the first n records
RECURSIVE buildJmdict(_, _)
buildJmdict(raws, n) ==
    IF n = 0
    THEN [entries |-> <<>>, wordLookup |-> <<>>, wordOrder |-> <<>>,
          readingLookup |-> <<>>, kanjiCharIndex |-> <<>>]
    ELSE LET before == buildJmdict(raws, n - 1)
             raw == raws[n]
         IN  [entries |-> StoreEntry(before.entries, n, raw),
              wordLookup |-> PushAll(before.wordLookup, raw.kanji, n),
              wordOrder |-> KeysAfter(before.wordOrder, raw.kanji),
              readingLookup |-> PushAll(before.readingLookup, raw.readings, n),
              kanjiCharIndex |-> IndexSpellings(before.kanjiCharIndex, raw.kanji, n)]

InitRelated ==
    /\ pc = "related"
    /\ \E size \in DictSizes, layout \in Layouts, s \in Levels, c \in OtherLevels :
         LET raws == DictRaws(size, layout)
         IN  /\ \E jm \in {buildJmdict(raws, Len(raws))} :
                   /\ entries = jm.entries
                   /\ wordLookup = jm.wordLookup
                   /\ wordOrder = jm.wordOrder
                   /\ readingLookup = jm.readingLookup
                   /\ kanjiCharIndex = jm.kanjiCharIndex
             /\ rawCount = Len(raws)
             /\ enWords = loadJlptWords(HandFiles(size, layout, s, c))
    /\ wi = 0 /\ okCount = 0 /\ skipCount = 0 /\ out = <<>>
    /\ NothingLoaded /\ PitchAtStart /\ CorpusAtStart /\ FilterAtStart
    /\ conjLog = <<>> /\ relLog = <<>>
    /\ senseIn = <<>> /\ senseLevel = "N5" /\ senseOut = None

\* what a run keeps of a scored candidate
Scored(x) ==
    [seq |-> x.entry.seq, score |-> x.score, rank |-> FreqOrLast(x.entry.priority)]

\* one pass of the batch loop for a word of the list: the record, and from
\* step 6 the scored candidates and the list after the top-20 cut
RelateWord ==
    /\ pc = "related"
    /\ relLog = <<>>
    /\ \E n \in 1..Len(DedupWords(enWords)) :
         LET jw == DedupWords(enWords)[n]
         IN  \E rec \in {LoopBody(jw)} :
               /\ rec.status = "ok"
               /\ LET primary == entries[PrimarySeqOf(jw.word, LookupSeqs(jw.word))]
                      sourceFreq == freqRank(primary.priority)
                      sourcePos == Range(AllPos(rec.senses))
                      cands == RelatedCandidates(rec.w, jw.jlpt, sourceFreq, sourcePos,
                                                 rec.matched, enWords)
                  IN  relLog' = <<[jw |-> jw, rec |-> rec,
                                   sourceFreq |-> sourceFreq,
                                   sourcePos |-> sourcePos,
                                   scored |-> [i \in 1..Len(cands) |-> Scored(cands[i])],
                                   top |-> RelatedScored(rec.w, jw.jlpt, sourceFreq,
                                                         sourcePos, rec.matched, enWords)]>>
    /\ UNCHANGED <<pc, batchVars, loadedVars, senseVars, pitchVars, corpusVars, filterVars,
                   conjLog>>

NextRelated == RelateWord

SpecRelated == InitRelated /\ [][NextRelated]_vars


\* a CJK unified ideograph of the basic block or of the extensions A and B
IsIdeograph(ch) ==
    \/ (ch >= 19968 /\ ch <= 40959)
    \/ (ch >= 13312 /\ ch <= 19903)
    \/ (ch >= 131072 /\ ch <= 173791)

\* the score of C23 for a candidate of a run, given its count of shared
\* characters
StatedScore(shared, cand, run) ==
    LET cLevel == jlptMapGet(enWords, PrimarySpelling(cand))
        cRank  == freqRank(cand.priority)
        near   == /\ cRank # None /\ run.sourceFreq # None
                  /\ cRank[1] - run.sourceFreq[1] < 3000
                  /\ run.sourceFreq[1] - cRank[1] < 3000
    IN  shared
        + (IF cLevel = Some(run.jw.jlpt) THEN 2 ELSE 0)
        + (IF near THEN 1 ELSE 0)
        + (IF Range(AllPos(cand.senses)) \cap run.sourcePos # {} THEN 2 ELSE 0 - 1)

\* C23 as stated: the score is +1 for each character of the candidate's
\* primary spelling that is an ideograph of the source word, +2 for an equal
\* known level, +1 for known frequency ranks less than 3000 apart, and a flat
\* +2 for a shared part-of-speech tag or a flat -1 for none; it is never
\* below -1.
C23_ScoreAsStated ==
    \A n \in 1..Len(relLog) :
        \A i \in 1..Len(relLog[n].scored) :
            LET cand  == entries[relLog[n].scored[i].seq]
                cWord == PrimarySpelling(cand)
                shared == Cardinality({p \in 1..Len(cWord) :
                             /\ IsIdeograph(cWord[p])
                             /\ cWord[p] \in Range(relLog[n].rec.w)})
            IN  /\ relLog[n].scored[i].score = StatedScore(shared, cand, relLog[n])
                /\ relLog[n].scored[i].score >= 0 - 1

\* the same with the shared characters counted among the ideographs of the
\* basic block and of extension A only
C23_ScoreOverBasicIdeographs ==
    \A n \in 1..Len(relLog) :
        \A i \in 1..Len(relLog[n].scored) :
            LET cand  == entries[relLog[n].scored[i].seq]
                cWord == PrimarySpelling(cand)
                shared == Cardinality({p \in 1..Len(cWord) :
                             /\ isKanji(cWord[p])
                             /\ cWord[p] \in Range(relLog[n].rec.w)})
            IN  /\ relLog[n].scored[i].score = StatedScore(shared, cand, relLog[n])
                /\ relLog[n].scored[i].score >= 0 - 1

\* scores of a run include -1, a word counted twice and a flat +2 for two tags
C23_ScoresSeen ==
    \E n \in 1..Len(relLog) :
        /\ relLog[n].rec.w = wTe
        /\ \E i, j, k \in 1..Len(relLog[n].scored) :
              /\ relLog[n].scored[i].score = 0 - 1 + 1
              /\ entries[relLog[n].scored[j].seq].kanji[1] = wTeTe
              /\ relLog[n].scored[j].score >= 4
              /\ Len(entries[relLog[n].scored[k].seq].senses[1].pos) = 2


\* what a run recorded for the candidate an item was made from
ScoredAs(run, item) ==
    run.scored[CHOOSE i \in 1..Len(run.scored) : run.scored[i].seq = item.seq]

\* the place of an item in a list of items made from distinct entries
PlaceIn(list, item) == CHOOSE p \in 1..Len(list) : list[p] = item

\* C24: the related list holds only candidates with a positive score, at most
\* 8 of them, in order of non-increasing score and, for equal scores, of
\* ascending frequency rank with unknown ranks last; it is a subsequence, in
\* the same order, of the list cut to 20 before the level filter.
C24_RelatedFromTopTwenty ==
    \A n \in 1..Len(relLog) :
        LET run == relLog[n]
            rel == run.rec.related
        IN  /\ Len(rel) <= 8
            /\ Len(run.top) <= 20
            /\ \A i \in 1..Len(rel) :
                  /\ \E k \in 1..Len(run.scored) : run.scored[k].seq = rel[i].seq
                  /\ ScoredAs(run, rel[i]).score > 0
                  /\ rel[i] \in Range(run.top)
            /\ \A i, j \in 1..Len(rel) :
                  i < j =>
                    /\ PlaceIn(run.top, rel[i]) < PlaceIn(run.top, rel[j])
                    /\ \/ ScoredAs(run, rel[i]).score > ScoredAs(run, rel[j]).score
                       \/ /\ ScoredAs(run, rel[i]).score = ScoredAs(run, rel[j]).score
                          /\ ScoredAs(run, rel[i]).rank <= ScoredAs(run, rel[j]).rank

\* a run with more than 20 candidates of positive score, where the level
\* filter removed words of the top 20 and kept words of equal score
C24_Witness ==
    \E n \in 1..Len(relLog) :
        LET run == relLog[n]
            rel == run.rec.related
        IN  /\ Cardinality({k \in 1..Len(run.scored) : run.scored[k].score > 0}) > 20
            /\ Len(run.top) = 20
            /\ Len(rel) > 1 /\ Len(rel) < 20
            /\ \E i, j \in 1..Len(rel) :
                  /\ i < j
                  /\ ScoredAs(run, rel[i]).score = ScoredAs(run, rel[j]).score
                  /\ ScoredAs(run, rel[i]).rank < ScoredAs(run, rel[j]).rank

\* a run where more than 8 words of the top 20 pass the level filter
C24_CapReached ==
    \E n \in 1..Len(relLog) :
        /\ Len(relLog[n].rec.related) = 8
        /\ Len(filterRelatedByJlpt(relLog[n].top, relLog[n].jw.jlpt, enWords)) > 8


\* the entries C25 calls qualifying for a run: not matched as the source,
\* the primary spelling contains the target, an idiom-set tag on some sense
QualifyingFor(run) ==
    {q \in DOMAIN entries :
        /\ q \notin run.rec.matched
        /\ Includes(PrimarySpelling(entries[q]), run.rec.w)
        /\ \E i \in 1..Len(AllMisc(entries[q])) :
              IsIdiomTag(toLowerCase(AllMisc(entries[q])[i]))}

\* q is in the idiom list of the run, or 10 other entries of the set rank
\* at least as high
ListedOrOutranked(run, q, set) ==
    \/ \E i \in 1..Len(run.rec.idioms) : run.rec.idioms[i].seq = q
    \/ Cardinality({o \in set \ {q} :
            scoreIdiom(entries[o], run.rec.w, run.sourceFreq)
                >= scoreIdiom(entries[q], run.rec.w, run.sourceFreq)}) >= 10

\* C25 as stated: every entry that is not excluded as the source, whose
\* primary spelling contains the target and which carries an idiom-set tag is
\* in the output unless 10 other such entries rank ahead of it, entries
\* without a kanji spelling included.
C25_EveryEntryConsidered ==
    \A n \in 1..Len(relLog) :
        \A q \in QualifyingFor(relLog[n]) :
            ListedOrOutranked(relLog[n], q, QualifyingFor(relLog[n]))

\* the same for the entries that have a kanji spelling
C25_EverySpelledEntryConsidered ==
    \A n \in 1..Len(relLog) :
        LET spelled == {q \in QualifyingFor(relLog[n]) : entries[q].kanji # <<>>}
        IN  \A q \in spelled : ListedOrOutranked(relLog[n], q, spelled)

\* a run for て whose idiom list has fewer than 10 items including a spelled
\* entry, while the proverb てがみ, which has no kanji spelling, is not in it
C25_KanaOnlyMissed ==
    \E n \in 1..Len(relLog) :
        /\ relLog[n].rec.w = rTe
        /\ Len(relLog[n].rec.idioms) < 10
        /\ \E i \in 1..Len(relLog[n].rec.idioms) : relLog[n].rec.idioms[i].word = wExtBTe
        /\ \E q \in QualifyingFor(relLog[n]) :
              /\ entries[q].kanji = <<>>
              /\ \A i \in 1..Len(relLog[n].rec.idioms) : relLog[n].rec.idioms[i].seq # q


\* the score C26 gives an entry: 10 for the contained target, 2 or 1 for a
\* short spelling, 5 for a priority marker
StatedIdiomScore(e) ==
    10 + (IF StrLength(PrimarySpelling(e)) <= 6 THEN 2
          ELSE IF StrLength(PrimarySpelling(e)) <= 10 THEN 1 ELSE 0)
       + (IF e.priority # <<>> THEN 5 ELSE 0)

\* the candidates of a run that pass the two tests: the qualifying entries
\* found in the tables of spellings
ScoredIdioms(run) == {q \in QualifyingFor(run) : entries[q].kanji # <<>>}

C26_ScoresSeen ==
    \E n \in 1..Len(relLog) :
        Cardinality({relLog[n].rec.idioms[i].score :
                        i \in 1..Len(relLog[n].rec.idioms)}) >= 3


-----------------------------------------------------------------------------
\* the highest grade recorded for the ideographs of a sentence that the
\* filter looks up, 0 when none has a grade
WorstGrade(sentence) ==
    LET grades == {RecordedGrade(sentence[i]) :
                      i \in {j \in 1..Len(sentence) : isKanji(sentence[j])}} \cup {0}
    IN  CHOOSE g \in grades : \A h \in grades : h <= g

\* with the ceiling given per level, the run kept the candidates within the
\* length limit whose grades are within the ceiling, as far as there was
\* room, and no candidate with a grade above it
CeilingApplied(ceiling) ==
    exOut # None =>
        \A n \in 1..Len(rawExamples) :
            LET ex == rawExamples[n]
            IN  StrLength(ex.japanese) <= MaxExampleLen =>
                  IF WorstGrade(ex.japanese) <= ceiling[exLevel]
                  THEN ex \in Range(exOut[1]) \/ Len(exOut[1]) = ExamplesKeep
                  ELSE ex \notin Range(exOut[1])

\* C28 as stated: the grade ceiling of filterExamples is 2 for N5, 4 for N4,
\* 6 for N3, and there is none for N2 and N1.
C28_CeilingsAsStated ==
    CeilingApplied([l \in Levels |->
        IF l = "N5" THEN 2 ELSE IF l = "N4" THEN 4 ELSE IF l = "N3" THEN 6 ELSE 99])

\* the ceilings of the code: 2 for N5 and N4, 4 for N3, 6 for N2, none for N1
C28_CeilingsAsCoded ==
    CeilingApplied([l \in Levels |->
        IF l \in {"N5", "N4"} THEN 2 ELSE IF l = "N3" THEN 4
        ELSE IF l = "N2" THEN 6 ELSE 99])

\* at N4 a sentence whose only graded ideographs have grades 1 and 4 was the
\* single candidate and was not returned
C28_GradeFourRejectedAtN4 ==
    /\ exLevel = "N4"
    /\ rawExamples = <<Pair(<<Ch.te, Ch.ai>>, <<"c">>)>>
    /\ exOut = Some(<<>>)


RECURSIVE IsPrefix(_, _)
IsPrefix(a, b) ==
    \/ a = <<>>
    \/ b # <<>> /\ Head(a) = Head(b) /\ IsPrefix(Tail(a), Tail(b))

\* the output is the first k of the passing candidates, k at most 3 and,
\* when candidates that pass are left out, at least 2
FirstPassing(passing) ==
    exOut # None =>
        /\ IsPrefix(exOut[1], passing)
        /\ Len(exOut[1]) <= 3
        /\ Len(exOut[1]) < Len(passing) => Len(exOut[1]) >= 2

\* C27 as stated: filterExamples returns the first k candidates, in candidate
\* order, that are at most 30 characters long and have no ideograph with a
\* recorded grade above the ceiling of the level, k at most 3; every returned
\* sentence is at most 30 characters long.
C27_FirstPassingAsStated ==
    FirstPassing(SelectSeq(rawExamples, LAMBDA ex :
        /\ Len(ex.japanese) <= 30
        /\ \A i \in 1..Len(ex.japanese) :
              IsIdeograph(ex.japanese[i]) =>
                  RecordedGrade(ex.japanese[i]) <= maxGrade(RankOf(Some(exLevel)))))

\* the same with the length counted in UTF-16 code units and the grade gate
\* applied to the ideographs of the basic block and of extension A
C27_FirstPassingAsCoded ==
    FirstPassing(SelectSeq(rawExamples, LAMBDA ex :
        /\ StrLength(ex.japanese) <= 30
        /\ \A i \in 1..Len(ex.japanese) :
              isKanji(ex.japanese[i]) =>
                  RecordedGrade(ex.japanese[i]) <= maxGrade(RankOf(Some(exLevel)))))

\* three candidates passed, in an order other than that of the pool, and the
\* first two were returned
C27_CutReached ==
    /\ exOut # None /\ Len(rawExamples) = 3
    /\ rawExamples[1] = Pair(KanaRun(30), <<"h">>)
    /\ rawExamples[3] = Pair(sTe, <<"a">>)
    /\ exOut[1] = SubSeq(rawExamples, 1, 2)


-----------------------------------------------------------------------------
\* the six denylist terms of C29
DenylistTerms ==
    { <<"v","u","l","g","a","r">>, <<"c","r","u","d","e">>, <<"o","b","s","c","e","n","e">>,
      <<"d","e","r","o","g","a","t","o","r","y">>, <<"a","r","c","h","a","i","c">>,
      <<"o","b","s","o","l","e","t","e">> }

\* the senses of the input that neither rule of C29 drops at the level of
\* the run, in input order
KeptByRules ==
    SelectSeq(senseIn, LAMBDA sense :
        /\ ~\E i \in 1..Len(sense.misc) :
               \E term \in DenylistTerms : Includes(toLowerCase(sense.misc[i]), term)
        /\ ~(JLPT_RANK[senseLevel] >= 4 /\ HasInappropriateMeaning(sense)))

\* C29 as stated: filterSenses drops a sense exactly when a misc tag of it
\* contains a denylist term, or the level is N5 or N4 and its joined glosses
\* match a sensitive-meaning pattern.
C29_DroppedExactlyByRules ==
    senseOut # None => senseOut[1] = KeptByRules

\* C29: the senses filterSenses returns are the first 5 (N5, N4), 8 (N3) or
\* 12 (N2, N1) of the senses that neither rule drops; the rules drop a sense
\* exactly when a misc tag of it contains a denylist term, or the level is N5
\* or N4 and its joined glosses match a sensitive-meaning pattern.
C29_DroppedByRulesOrCap ==
    senseOut # None => senseOut[1] = Slice0(KeptByRules, CapForLevel(senseLevel))

\* at N3 a sense that only matches a sensitive-meaning pattern was returned
C29_Witness ==
    /\ senseOut # None /\ senseLevel = "N3"
    /\ SensitiveSense \in Range(senseIn)
    /\ SensitiveSense \in Range(senseOut[1])

\* at N4 the same sense was dropped, and at N1 a sense with a denylist tag
C29_RulesSeen ==
    /\ senseOut # None
    /\ \/ senseLevel = "N4" /\ JoinedSensitiveSense \in Range(senseIn)
             /\ JoinedSensitiveSense \notin Range(senseOut[1])
       \/ senseLevel = "N1" /\ DeniedSense \in Range(senseIn)
             /\ DeniedSense \notin Range(senseOut[1])


-----------------------------------------------------------------------------
(* The two example stages in a row: buildExamplesIndex over a corpus, then *)
(* filterExamples on the list of one target word.                          *)

MaxChainCorpus == 7     \* sentence pairs in the corpus

\* sentences that contain 手: one of grade 1, one with a grade 8 ideograph,
\* one of 31 characters; and a sentence without 手
ChainPool ==
    { Pair(sTe, <<"a">>), Pair(<<Ch.te, Ch.utsu>>, <<"e">>),
      Pair(<<Ch.te>> \o KanaRun(30), <<"k">>), Pair(sKana, <<"c">>) }

InitChain ==
    /\ pc = "chain"
    /\ BatchAtStart /\ NothingLoaded /\ PitchAtStart
    /\ corpus = <<>> /\ exTargets \in {<<wTe>>, <<wTe, wTegami>>}
    /\ rawExamples = <<>> /\ exLevel \in {"N5", "N1"} /\ exOut = None
    /\ conjLog = <<>> /\ relLog = <<>>
    /\ senseIn = <<>> /\ senseLevel = "N5" /\ senseOut = None

\* a line of the corpus file
ReadPair ==
    /\ pc = "chain"
    /\ Len(corpus) < MaxChainCorpus
    /\ \E pair \in ChainPool : corpus' = Append(corpus, pair)
    /\ UNCHANGED <<pc, batchVars, loadedVars, senseVars, pitchVars, filterVars, conjLog, relLog,
                   exTargets>>

\* exIdx = buildExamplesIndex(tatoeba, targetWords)
IndexCorpus ==
    /\ pc = "chain"
    /\ exIdx' = Some(buildExamplesIndex(corpus, exTargets))
    /\ pc' = "chainIndexed"
    /\ UNCHANGED <<batchVars, pitchDict, senseVars, pitchVars, corpusVars, filterVars, conjLog,
                   relLog>>

\* step 9 of the batch loop for the first target word
FilterIndexed ==
    /\ pc = "chainIndexed"
    /\ rawExamples' = RawExamplesOf(exIdx, exTargets[1])
    /\ exOut' = Some(filterExamples(RawExamplesOf(exIdx, exTargets[1]), Some(exLevel)))
    /\ pc' = "chainDone"
    /\ UNCHANGED <<batchVars, loadedVars, senseVars, pitchVars, corpusVars, exLevel, conjLog,
                   relLog>>

NextChain == ReadPair \/ IndexCorpus \/ FilterIndexed

SpecChain == InitChain /\ [][NextChain]_vars

\* the sentences of the corpus that contain the first target word
WithTarget == SelectSeq(corpus, LAMBDA pair : Includes(pair.japanese, exTargets[1]))

\* C30 as stated: if the corpus has a sentence that contains the target word
\* and passes the length and grade gates for the word's level, the word's
\* final example list is not empty.
C30_PassingSentenceGivesExample ==
    pc = "chainDone" =>
        ((\E n \in 1..Len(WithTarget) : ExampleKept(WithTarget[n], JLPT_RANK[exLevel]))
            => exOut[1] # <<>>)

\* the same for the first six sentences of the corpus that contain the word
C30_FirstSixDecide ==
    pc = "chainDone" =>
        ((\E n \in 1..Len(Slice0(WithTarget, ExamplesCap)) :
              ExampleKept(WithTarget[n], JLPT_RANK[exLevel]))
            <=> exOut[1] # <<>>)

\* six sentences with 手 that fail a gate, then one that passes both: the
\* list handed to the filter has the six, the result is empty
C30_SeventhSentenceLost ==
    /\ pc = "chainDone" /\ exLevel = "N5"
    /\ Len(corpus) = 7
    /\ corpus[7] = Pair(sTe, <<"a">>)
    /\ Len(rawExamples) = 6
    /\ exOut[1] = <<>>

=============================================================================
